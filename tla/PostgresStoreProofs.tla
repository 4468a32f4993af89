-------------------------- MODULE PostgresStoreProofs --------------------------
(***************************************************************************)
(* Proofs about PostgresStore: a boundary is a history of the abstract     *)
(* event log, callers are told the truth, and an ascending reader misses   *)
(* nothing as long as servers start cleanly.                               *)
(***************************************************************************)
EXTENDS PostgresStore, ConsistencyProofs

TypeInv ==
    /\ sequence \in Nat
    /\ nextXid \in Nat \ {0}
    /\ active \subseteq 1 .. nextXid - 1
    /\ migration \in [Servers -> {"idle", "running", "done"}]
    /\ serverXid \in [Servers -> Nat]
    /\ stage \in [Batches -> {"idle", "waiting", "locked", "looping", "committed", "aborted"}]
    /\ xid \in [Batches -> Nat]
    /\ index \in [Batches -> Nat \ {0}]
    /\ DOMAIN latest = Batches
    /\ DOMAIN pending = Batches
    /\ DOMAIN outcome = Requests

\* A write as the batches make them.
WriteOK(w) ==
    /\ w = [commit |-> w.commit, first |-> w.first, docs |-> w.docs,
            checks |-> w.checks, request |-> w.request, xid |-> w.xid]
    /\ w.commit \in Nat /\ w.first \in Nat /\ w.xid \in Nat
    /\ w.docs \in Seq(SUBSET Predicates) \ {<<>>}
    /\ w.commit = w.first + Len(w.docs)

\* No two writes share a position.
Apart(ws) == \A w, x \in ws : w = x \/ w.commit <= x.first \/ x.commit <= w.first

\* One batch at a time has the lock, and only such a batch has accepted writes.
LockInv ==
    /\ \A t, u \in Batches : HoldsLock(t) /\ HoldsLock(u) => t = u
    /\ \A t \in Batches : stage[t] \in {"idle", "waiting", "locked"} => pending[t] = {}

\* The committed writes and then those of the open batch follow each other.
LogInv ==
    /\ \A w \in writes : WriteOK(w) /\ w.commit <= sequence
    /\ Apart(writes)
    /\ \A t \in Batches : stage[t] = "looping" =>
          /\ \A w \in pending[t] :
                /\ WriteOK(w) /\ w.commit <= sequence
                /\ \A x \in writes : x.commit <= w.first
          /\ Apart(pending[t])

\* The criterion positions of the open batch are those of the rows as it would
\* leave them, and each write it has accepted stood when it was accepted.
CheckInv ==
    \A t \in Batches : stage[t] = "looping" =>
        /\ \A c \in CriteriaOf(t) : latest[t][c] = LatestMatch(c, Rows(writes \cup pending[t]))
        /\ \A w \in pending[t] :
              Satisfied(w.checks, Rows({x \in writes \cup pending[t] : x.commit < w.commit}))

\* Where the writes of a request can be.
RequestInv ==
    /\ \A t \in Batches : stage[t] = "looping" =>
          \A w \in pending[t] :
              /\ \E i \in DOMAIN BatchOf[t] : i < index[t] /\ w.request = BatchOf[t][i]
              /\ \A x \in pending[t] : w.request = x.request => w = x
    /\ \A w \in writes : w.request \in Requests =>
          \E t \in Batches : stage[t] = "committed" /\ w.request \in RequestsIn(t)

\* Servers start cleanly: while one initializes a boundary that is in use no
\* later transaction has committed to it, and one that initializes a restored
\* boundary finds no transaction id below its own in it.
CleanStart ==
    \A s \in Servers : migration[s] = "running" =>
        IF Registered THEN \A w \in writes : w.xid < serverXid[s]
        ELSE \A w \in writes : w.xid = NullXid \/ w.xid >= serverXid[s]

\* The transaction ids of the log are in its order, that of the open batch last.
XidInv ==
    /\ \A t \in Batches : stage[t] # "idle" => Registered
    /\ \A t \in Batches : stage[t] \in {"idle", "waiting"} => xid[t] = NullXid
    /\ \A t \in Batches : HoldsLock(t) /\ xid[t] # NullXid =>
          xid[t] < nextXid /\ \A w \in writes : w.xid < xid[t]
    /\ \A t \in Batches : stage[t] = "looping" =>
          xid[t] # NullXid /\ \A w \in pending[t] : w.xid = xid[t]
    /\ Registered => \A w \in writes : w.xid < nextXid
    /\ Registered => \A w, x \in writes : w.commit < x.commit => w.xid <= x.xid

\* A reader is before every event or at one.
ReaderInv ==
    /\ cursor \in [Readers -> Position]
    /\ DOMAIN delivered = Readers
    /\ \A c \in Readers : cursor[c] = NotExists \/ \E row \in Rows(writes) : cursor[c] = row.pos

-----------------------------------------------------------------------------
(* Lemmas about writes.                                                     *)

\* What MigrateEnd makes of a write.
Cleared(w, s) == [w EXCEPT !.xid = IF @ >= serverXid[s] THEN NullXid ELSE @]

\* The migration of boundary_tables.go changes nothing of an event but its transaction id.
LEMMA ClearedWrite ==
  ASSUME TypeInv, NEW s \in Servers, NEW w, WriteOK(w)
  PROVE  LET z == Cleared(w, s) IN
         /\ WriteOK(z)
         /\ z.commit = w.commit /\ z.first = w.first /\ z.docs = w.docs
         /\ z.checks = w.checks /\ z.request = w.request
         /\ z.xid = IF w.xid >= serverXid[s] THEN NullXid ELSE w.xid
<1> DEFINE n == IF w.xid >= serverXid[s] THEN NullXid ELSE w.xid
<1>1. n \in Nat
  BY Zenon DEF TypeInv, WriteOK, NullXid
<1>2. Cleared(w, s) = [commit |-> w.commit, first |-> w.first, docs |-> w.docs,
                       checks |-> w.checks, request |-> w.request, xid |-> n]
  BY DEF WriteOK, Cleared
<1> QED BY <1>1, <1>2 DEF WriteOK

\* The request a batch is at has documents.
LEMMA DocsOf ==
  ASSUME TypeInv, NEW t \in Batches, index[t] <= Len(BatchOf[t])
  PROVE  /\ index[t] \in DOMAIN BatchOf[t]
         /\ BatchOf[t][index[t]] \in Requests
         /\ Docs[BatchOf[t][index[t]]] \in Seq(SUBSET Predicates) \ {<<>>}
         /\ Len(Docs[BatchOf[t][index[t]]]) \in Nat \ {0}
<1>1. BatchOf[t] \in Seq(Requests)
  BY StoreAssumption, Zenon
<1>2. index[t] \in DOMAIN BatchOf[t]
  BY <1>1 DEF TypeInv
<1>3. BatchOf[t][index[t]] \in Requests
  BY <1>1, <1>2
<1>4. Docs[BatchOf[t][index[t]]] \in Seq(SUBSET Predicates) \ {<<>>}
  BY <1>3, StoreAssumption, Zenon
<1> QED BY <1>2, <1>3, <1>4

-----------------------------------------------------------------------------
(* The inductive invariant, action by action.                               *)

\* Every step keeps the types of the tables, the transactions and the servers.
LEMMA TypeStep ==
  ASSUME TypeInv, [Next]_vars
  PROVE  TypeInv'
<1> USE DEF TypeInv, serverVars, batchVars, readerVars, clusterVars, NullXid
<1>1. ASSUME NEW o \in Others, OtherBegin(o) PROVE TypeInv'
  BY <1>1 DEF OtherBegin
<1>2. ASSUME NEW o \in Others, OtherEnd(o) PROVE TypeInv'
  BY <1>2, Zenon DEF OtherEnd
<1>3. ASSUME NEW s \in Servers, MigrateBegin(s) PROVE TypeInv'
  BY <1>3 DEF MigrateBegin
<1>4. ASSUME NEW s \in Servers, MigrateEnd(s) PROVE TypeInv'
  BY <1>4, Zenon DEF MigrateEnd
<1>5. ASSUME NEW r \in Requests, NEW q \in Queries[r], Observe(r, q) PROVE TypeInv'
  BY <1>5, Zenon DEF Observe
<1>6. ASSUME NEW t \in Batches, Compile(t) PROVE TypeInv'
  BY <1>6, Zenon DEF Compile
<1>7. ASSUME NEW t \in Batches, Lock(t) PROVE TypeInv'
  BY <1>7, Zenon DEF Lock
<1>8. ASSUME NEW t \in Batches, AssignXid(t) PROVE TypeInv'
  BY <1>8 DEF AssignXid
<1>9. ASSUME NEW t \in Batches, ReadLatest(t) PROVE TypeInv'
  BY <1>9, Zenon DEF ReadLatest
<1>10. ASSUME NEW t \in Batches, ExecuteRequest(t) PROVE TypeInv'
  <2> DEFINE r == BatchOf[t][index[t]]
  <2>1. Len(Docs[r]) \in Nat
    BY <1>10, DocsOf, Zenon DEF ExecuteRequest
  <2>2. sequence' = sequence + Len(Docs[r]) \/ sequence' = sequence
    BY <1>10, Zenon DEF ExecuteRequest
  <2>3. sequence' \in Nat
    BY <2>1, <2>2
  <2>4. DOMAIN latest' = Batches /\ DOMAIN pending' = Batches
    BY <1>10, Zenon DEF ExecuteRequest
  <2> QED BY <1>10, <2>3, <2>4 DEF ExecuteRequest
<1>11. ASSUME NEW t \in Batches, Commit(t) PROVE TypeInv'
  BY <1>11, Zenon DEF Commit
<1>12. ASSUME NEW t \in Batches, Abort(t) PROVE TypeInv'
  BY <1>12, Zenon DEF Abort
<1>13. ASSUME NEW c \in Readers, ReadNext(c) PROVE TypeInv'
  BY <1>13, Zenon DEF ReadNext
<1>14. CASE UNCHANGED vars
  BY <1>14, Zenon DEF vars
<1> QED BY Zenon, <1>1, <1>2, <1>3, <1>4, <1>5, <1>6, <1>7, <1>8, <1>9, <1>10, <1>11, <1>12, <1>13,
           <1>14 DEF Next

\* What the steps that leave the log and the batches' decisions alone have in common.
Quiet == UNCHANGED <<writes, sequence, stage, latest, index, pending, outcome>>

\* Only the end of a migration and the steps of insert_events_batch change the
\* log or what a batch has decided.
LEMMA StepCases ==
  ASSUME [Next]_vars
  PROVE  \/ Quiet
         \/ \E s \in Servers : MigrateEnd(s)
         \/ \E t \in Batches :
               Compile(t) \/ Lock(t) \/ ReadLatest(t) \/ ExecuteRequest(t) \/ Commit(t) \/ Abort(t)
<1> USE DEF Quiet, batchVars
<1>1. ASSUME NEW o \in Others, OtherBegin(o) \/ OtherEnd(o) PROVE Quiet
  BY <1>1, Zenon DEF OtherBegin, OtherEnd
<1>2. ASSUME NEW s \in Servers, MigrateBegin(s) PROVE Quiet
  BY <1>2, Zenon DEF MigrateBegin
<1>3. ASSUME NEW r \in Requests, NEW q \in Queries[r], Observe(r, q) PROVE Quiet
  BY <1>3, Zenon DEF Observe
<1>4. ASSUME NEW t \in Batches, AssignXid(t) PROVE Quiet
  BY <1>4, Zenon DEF AssignXid
<1>5. ASSUME NEW c \in Readers, ReadNext(c) PROVE Quiet
  BY <1>5, Zenon DEF ReadNext
<1>6. CASE UNCHANGED vars
  BY <1>6, Zenon DEF vars
<1> QED BY <1>1, <1>2, <1>3, <1>4, <1>5, <1>6, Zenon DEF Next

\* The advisory transaction lock of insert_events_batch has one holder.
LEMMA LockStep ==
  ASSUME TypeInv, LockInv, [Next]_vars
  PROVE  LockInv'
<1> USE DEF TypeInv, LockInv, HoldsLock
<1>1. CASE Quiet
  BY <1>1, Zenon DEF Quiet
<1>2. ASSUME NEW s \in Servers, MigrateEnd(s) PROVE LockInv'
  BY <1>2, Zenon DEF MigrateEnd, batchVars
<1>3. ASSUME NEW t \in Batches, Compile(t) PROVE LockInv'
  BY <1>3, Zenon DEF Compile
<1>4. ASSUME NEW t \in Batches, Lock(t) PROVE LockInv'
  BY <1>4, Zenon DEF Lock, LockFree
<1>5. ASSUME NEW t \in Batches, ReadLatest(t) PROVE LockInv'
  BY <1>5, Zenon DEF ReadLatest
<1>6. ASSUME NEW t \in Batches, ExecuteRequest(t) PROVE LockInv'
  <2>1. \A u \in Batches : u # t => pending'[u] = pending[u]
    BY <1>6, Zenon DEF ExecuteRequest
  <2> QED BY <1>6, <2>1, Zenon DEF ExecuteRequest
<1>7. ASSUME NEW t \in Batches, Commit(t) PROVE LockInv'
  BY <1>7, Zenon DEF Commit
<1>8. ASSUME NEW t \in Batches, Abort(t) PROVE LockInv'
  BY <1>8, Zenon DEF Abort
<1> QED BY <1>1, <1>2, <1>3, <1>4, <1>5, <1>6, <1>7, <1>8, StepCases, Zenon

\* The write an accepted request becomes.
NewWrite(t) ==
    LET r == BatchOf[t][index[t]] IN
    [commit |-> sequence + Len(Docs[r]), first |-> sequence, docs |-> Docs[r],
     checks |-> ChecksOf(r), request |-> r, xid |-> xid[t]]

\* A request that is accepted takes the next numbers of the sequence.
LEMMA NewWriteOK ==
  ASSUME TypeInv, NEW t \in Batches, index[t] <= Len(BatchOf[t])
  PROVE  LET r == BatchOf[t][index[t]]
             v == NewWrite(t)
         IN  /\ WriteOK(v)
             /\ v.commit = sequence + Len(Docs[r]) /\ v.first = sequence /\ v.docs = Docs[r]
             /\ v.checks = ChecksOf(r) /\ v.request = r /\ v.xid = xid[t]
             /\ sequence < v.commit
<1> DEFINE r == BatchOf[t][index[t]]
<1>1. Docs[r] \in Seq(SUBSET Predicates) \ {<<>>} /\ Len(Docs[r]) \in Nat \ {0}
  BY DocsOf, Zenon
<1>2. sequence \in Nat /\ xid[t] \in Nat
  BY Zenon DEF TypeInv
<1> QED BY <1>1, <1>2 DEF NewWrite, WriteOK

\* A request of the open batch is accepted or leaves no trace.
LEMMA ExecuteCases ==
  ASSUME TypeInv, NEW t \in Batches, ExecuteRequest(t)
  PROVE  /\ stage[t] = "looping" /\ index[t] <= Len(BatchOf[t])
         /\ UNCHANGED <<writes, stage, outcome, xid>>
         /\ index' = [index EXCEPT ![t] = @ + 1]
         /\ \/ UNCHANGED <<sequence, latest, pending>>
            \/ /\ Passes(t, BatchOf[t][index[t]])
               /\ sequence' = NewWrite(t).commit
               /\ pending'[t] = pending[t] \cup {NewWrite(t)}
               /\ \A u \in Batches : u # t => pending'[u] = pending[u]
               /\ latest'[t] = LatestAfter(t, BatchOf[t][index[t]])
               /\ \A u \in Batches : u # t => latest'[u] = latest[u]
<1>1. stage[t] = "looping" /\ index[t] <= Len(BatchOf[t])
  BY Zenon DEF ExecuteRequest
<1>2. UNCHANGED <<writes, stage, outcome, xid>> /\ index' = [index EXCEPT ![t] = @ + 1]
  BY Zenon DEF ExecuteRequest
<1>3. CASE Passes(t, BatchOf[t][index[t]])
  <2>1. /\ sequence' = NewWrite(t).commit
        /\ pending' = [pending EXCEPT ![t] = @ \cup {NewWrite(t)}]
        /\ latest' = [latest EXCEPT ![t] = LatestAfter(t, BatchOf[t][index[t]])]
    BY <1>1, <1>3, NewWriteOK, Zenon DEF ExecuteRequest, NewWrite
  <2> QED BY <1>1, <1>2, <1>3, <2>1, Zenon DEF TypeInv
<1>4. CASE ~Passes(t, BatchOf[t][index[t]])
  BY <1>1, <1>2, <1>4, Zenon DEF ExecuteRequest
<1> QED BY <1>3, <1>4, Zenon

\* The log stays a sequence of writes that share no position.
LEMMA LogStep ==
  ASSUME TypeInv, LockInv, LogInv, [Next]_vars
  PROVE  LogInv'
<1>1. CASE Quiet
  BY <1>1, Zenon DEF Quiet, LogInv, WriteOK, Apart
<1>2. ASSUME NEW s \in Servers, MigrateEnd(s) PROVE LogInv'
  <2>1. writes' = {Cleared(w, s) : w \in writes} /\ UNCHANGED <<sequence, stage, pending>>
    BY <1>2, Zenon DEF MigrateEnd, Cleared, batchVars
  <2>2. ASSUME NEW z \in writes'
        PROVE  \E w \in writes : /\ z = Cleared(w, s) /\ WriteOK(w) /\ WriteOK(z)
                                 /\ z.commit = w.commit /\ z.first = w.first
    BY <2>1, ClearedWrite DEF LogInv
  <2>3. \A z \in writes' : WriteOK(z) /\ z.commit <= sequence
    BY <2>2, Zenon DEF LogInv
  <2>4. Apart(writes')
    BY <2>2 DEF LogInv, Apart
  <2>5. ASSUME NEW t \in Batches, stage[t] = "looping", NEW w \in pending[t], NEW z \in writes'
        PROVE  z.commit <= w.first
    BY <2>2, <2>5, Zenon DEF LogInv
  <2> QED BY <2>1, <2>3, <2>4, <2>5, ZenonT(30) DEF LogInv, WriteOK, Apart
<1>3. ASSUME NEW t \in Batches, Compile(t) \/ Lock(t) \/ Abort(t) PROVE LogInv'
  <2>1. UNCHANGED <<writes, sequence, pending>>
    BY <1>3, Zenon DEF Compile, Lock, Abort
  <2>2. \A u \in Batches : stage'[u] = "looping" => stage[u] = "looping"
    BY <1>3, Zenon DEF Compile, Lock, Abort, TypeInv
  <2> QED BY <2>1, <2>2, Zenon DEF LogInv, WriteOK, Apart
<1>4. ASSUME NEW t \in Batches, ReadLatest(t) PROVE LogInv'
  <2>1. UNCHANGED <<writes, sequence, pending>> /\ pending[t] = {}
    BY <1>4, Zenon DEF ReadLatest, LockInv
  <2>2. \A u \in Batches : stage'[u] = "looping" => stage[u] = "looping" \/ u = t
    BY <1>4, Zenon DEF ReadLatest, TypeInv
  <2> QED BY <2>1, <2>2, Zenon DEF LogInv, WriteOK, Apart
<1>5. ASSUME NEW t \in Batches, ExecuteRequest(t) PROVE LogInv'
  <2> DEFINE v == NewWrite(t)
  <2>1. CASE UNCHANGED <<sequence, latest, pending>>
    BY <1>5, <2>1, ExecuteCases DEF LogInv, WriteOK, Apart
  <2>2. CASE ~UNCHANGED <<sequence, latest, pending>>
    <3>1. /\ stage[t] = "looping" /\ UNCHANGED <<writes, stage>>
          /\ sequence' = v.commit
          /\ pending'[t] = pending[t] \cup {v}
      BY <1>5, <2>2, ExecuteCases, Zenon
    <3>2. WriteOK(v) /\ v.first = sequence /\ sequence < v.commit
      BY <1>5, ExecuteCases, NewWriteOK, Zenon
    <3>3. sequence \in Nat /\ v.commit \in Nat
      BY <3>2, Zenon DEF TypeInv, WriteOK
    <3>4. \A w \in writes : WriteOK(w) /\ w.commit <= v.commit /\ w.commit <= v.first
      BY <3>2, <3>3 DEF LogInv, WriteOK
    <3>5. \A w \in pending[t] : /\ WriteOK(w) /\ w.commit <= v.commit /\ w.commit <= v.first
                                /\ \A x \in writes : x.commit <= w.first
      BY <3>1, <3>2, <3>3 DEF LogInv, WriteOK
    <3>6. Apart(pending[t] \cup {v})
      BY <3>1, <3>5, Zenon DEF LogInv, Apart
    <3>7. \A u \in Batches : stage[u] = "looping" => u = t
      BY <3>1, Zenon DEF LockInv, HoldsLock
    <3>8. \A w \in pending'[t] : /\ WriteOK(w) /\ w.commit <= sequence'
                                 /\ \A x \in writes : x.commit <= w.first
      BY <3>1, <3>2, <3>3, <3>4, <3>5
    <3> QED BY <3>1, <3>4, <3>6, <3>7, <3>8, Zenon DEF LogInv, WriteOK, Apart
  <2> QED BY <2>1, <2>2, Zenon
<1>6. ASSUME NEW t \in Batches, Commit(t) PROVE LogInv'
  <2>1. /\ stage[t] = "looping" /\ writes' = writes \cup pending[t]
        /\ UNCHANGED <<sequence, pending>>
    BY <1>6, Zenon DEF Commit
  <2>2. \A u \in Batches : stage'[u] # "looping"
    BY <1>6, Zenon DEF Commit, TypeInv, LockInv, HoldsLock
  <2>3. \A w \in writes' : WriteOK(w) /\ w.commit <= sequence
    BY <2>1, Zenon DEF LogInv
  <2>4. Apart(writes')
    BY <2>1, Zenon DEF LogInv, Apart
  <2> QED BY <2>1, <2>2, <2>3, <2>4, Zenon DEF LogInv, WriteOK, Apart
<1> QED BY <1>1, <1>2, <1>3, <1>4, <1>5, <1>6, StepCases, Zenon

-----------------------------------------------------------------------------
(* The criterion positions.                                                 *)

\* The rows of a write carry its commit position and their own sequence number.
LEMMA RowPositions ==
  ASSUME NEW w, WriteOK(w), NEW row \in WriteRows(w)
  PROVE  row.pos \in Position /\ row.pos[1] = w.commit /\ 0 <= row.pos[2]
<1>1. PICK i \in DOMAIN w.docs : row = [pos |-> <<w.commit, w.first + i - 1>>, doc |-> w.docs[i]]
  BY Zenon DEF WriteRows
<1>2. i \in Nat \ {0}
  BY DEF WriteOK
<1> QED BY <1>1, <1>2 DEF WriteOK, Position

\* MigrateEnd changes no row.
LEMMA ClearedRows ==
  ASSUME TypeInv, NEW s \in Servers, NEW ws, \A w \in ws : WriteOK(w)
  PROVE  Rows({Cleared(w, s) : w \in ws}) = Rows(ws)
<1>1. \A w \in ws : WriteRows(Cleared(w, s)) = WriteRows(w)
  BY ClearedWrite DEF WriteRows
<1> QED BY <1>1 DEF Rows

\* Batch t knows the position of c among rows, and v is to follow these.
Accepting(t, r, c, rows, v, all) ==
    /\ index[t] <= Len(BatchOf[t])
    /\ r = BatchOf[t][index[t]] /\ v = NewWrite(t)
    /\ c \in CriteriaOf(t) /\ latest[t][c] = LatestMatch(c, rows)
    /\ all = rows \cup WriteRows(v)
    /\ \A row \in rows : row.pos \in Position /\ row.pos[1] <= sequence

\* The criterion positions of a batch that accepts a request are those of the
\* rows with the request's.
LEMMA LatestAfterIs ==
  ASSUME LeastExists, TypeInv, NEW t \in Batches, NEW r, NEW c, NEW rows, NEW v, NEW all,
         Accepting(t, r, c, rows, v, all)
  PROVE  LatestAfter(t, r)[c] = LatestMatch(c, all)
<1>0. /\ index[t] <= Len(BatchOf[t])
      /\ r = BatchOf[t][index[t]] /\ v = NewWrite(t)
      /\ c \in CriteriaOf(t) /\ latest[t][c] = LatestMatch(c, rows)
      /\ all = rows \cup WriteRows(v)
      /\ \A row \in rows : row.pos \in Position /\ row.pos[1] <= sequence
  BY Zenon DEF Accepting
<1>1. PICK docs : docs = Docs[r]
  BY Zenon
<1>2. PICK n \in Nat \ {0} : n = Len(docs)
  BY <1>0, <1>1, DocsOf, Zenon
<1>3. DOMAIN docs = 1 .. n /\ sequence \in Nat
  BY <1>0, <1>1, <1>2, DocsOf DEF TypeInv
<1>4. /\ v.docs = docs /\ v.first = sequence /\ v.commit = sequence + n
      /\ v.commit \in Int /\ v.first \in Int /\ sequence < v.commit
  BY <1>0, <1>1, <1>2, NewWriteOK DEF WriteOK
<1> DEFINE hits == {i \in 1 .. n : Matches(c, docs[i])}
<1>5. CASE hits = {}
  <2>1. LatestAfter(t, r)[c] = latest[t][c]
    BY <1>0, <1>1, <1>2, <1>5, Zenon DEF LatestAfter
  <2>2. \A i \in DOMAIN v.docs : ~Matches(c, v.docs[i])
    BY <1>3, <1>4, <1>5, Zenon
  <2>3. LatestMatch(c, all) = LatestMatch(c, rows)
    BY <1>0, <2>2, LatestMatchKept, Zenon
  <2> QED BY <1>0, <2>1, <2>3, Zenon
<1>6. CASE hits # {}
  <2>1. hits \in SUBSET Nat /\ \A i \in hits : i <= n
    OBVIOUS
  <2> DEFINE m == CHOOSE i \in hits : \A j \in hits : j <= i
  <2>2. m \in hits /\ \A j \in hits : j <= m
    <3> HIDE DEF hits
    <3>1. \E i \in hits : \A j \in hits : j <= i
      BY <1>6, <2>1, GreatestNatural, Zenon
    <3> QED BY <3>1, Zenon
  <2>3. LatestAfter(t, r)[c] = <<sequence + n, sequence + m - 1>>
    BY <1>0, <1>1, <1>2, <1>6, Zenon DEF LatestAfter
  <2> HIDE DEF m
  <2>4. m \in DOMAIN v.docs /\ Matches(c, v.docs[m]) /\ DOMAIN v.docs \subseteq Int
    BY <1>3, <1>4, <2>2
  <2>5. \A j \in DOMAIN v.docs : Matches(c, v.docs[j]) => j <= m
    BY <1>3, <1>4, <2>2, Zenon
  <2>6. \A x \in rows : x.pos \in Position /\ x.pos[1] < v.commit
    BY <1>0, <1>3, <1>4 DEF Position
  <2>7. LatestMatch(c, all) = <<v.commit, v.first + m - 1>>
    <3>1. LastHit(c, v, m)
      BY <2>4, <2>5, Zenon DEF LastHit
    <3>2. Extended(all, rows, v)
      BY <1>0, <1>4, <2>4, <2>6, Zenon DEF Extended
    <3> QED BY <3>1, <3>2, LatestMatchMoves
  <2> QED BY <1>4, <2>3, <2>7, Zenon
<1> QED BY <1>5, <1>6, Zenon

\* Every step keeps the criterion positions of the open batch exact.
LEMMA CheckStep ==
  ASSUME LeastExists, TypeInv, LockInv, LogInv, CheckInv, [Next]_vars
  PROVE  CheckInv'
<1>1. CASE Quiet
  BY <1>1, Zenon DEF Quiet, CheckInv
<1>2. ASSUME NEW s \in Servers, MigrateEnd(s) PROVE CheckInv'
  <2>1. writes' = {Cleared(w, s) : w \in writes} /\ UNCHANGED <<sequence, stage, pending, latest>>
    BY <1>2, Zenon DEF MigrateEnd, Cleared, batchVars
  <2>2. \A t \in Batches : Rows(writes' \cup pending[t]) = Rows(writes \cup pending[t])
    <3>1. Rows(writes') = Rows(writes)
      BY <2>1, ClearedRows, Zenon DEF LogInv
    <3>2. ASSUME NEW t \in Batches PROVE Rows(writes' \cup pending[t]) = Rows(writes \cup pending[t])
      <4>1. Rows(writes' \cup pending[t]) = Rows(writes') \cup Rows(pending[t])
        BY RowsUnion, Zenon
      <4>2. Rows(writes \cup pending[t]) = Rows(writes) \cup Rows(pending[t])
        BY RowsUnion, Zenon
      <4> QED BY <3>1, <4>1, <4>2, Zenon
    <3> QED BY <3>2, Zenon
  <2>3. ASSUME NEW t \in Batches, NEW k
        PROVE  Rows({x \in writes' \cup pending[t] : x.commit < k})
             = Rows({x \in writes \cup pending[t] : x.commit < k})
    <3> DEFINE old == {x \in writes : x.commit < k}
               new == {Cleared(w, s) : w \in old}
               mine == {x \in pending[t] : x.commit < k}
    <3>1. {x \in writes' \cup pending[t] : x.commit < k} = new \cup mine
      BY <2>1, ClearedWrite DEF LogInv
    <3>2. {x \in writes \cup pending[t] : x.commit < k} = old \cup mine
      BY Zenon
    <3>3. Rows(new) = Rows(old)
      BY ClearedRows, Zenon DEF LogInv
    <3>4. Rows(new \cup mine) = Rows(old \cup mine)
      <4> HIDE DEF new, old, mine
      <4>1. Rows(new \cup mine) = Rows(new) \cup Rows(mine)
        BY RowsUnion, Zenon
      <4>2. Rows(old \cup mine) = Rows(old) \cup Rows(mine)
        BY RowsUnion, Zenon
      <4> QED BY <3>3, <4>1, <4>2, Zenon
    <3> QED BY <3>1, <3>2, <3>4, Zenon
  <2> QED BY <2>1, <2>2, <2>3, Zenon DEF CheckInv
<1>3. ASSUME NEW t \in Batches, Compile(t) \/ Lock(t) \/ Abort(t) PROVE CheckInv'
  <2>1. UNCHANGED <<writes, pending, latest>>
    BY <1>3, Zenon DEF Compile, Lock, Abort
  <2>2. \A u \in Batches : stage'[u] = "looping" => stage[u] = "looping"
    BY <1>3, Zenon DEF Compile, Lock, Abort, TypeInv
  <2> QED BY <2>1, <2>2, Zenon DEF CheckInv
<1>4. ASSUME NEW t \in Batches, ReadLatest(t) PROVE CheckInv'
  <2>1. UNCHANGED <<writes, pending>> /\ pending[t] = {}
    BY <1>4, Zenon DEF ReadLatest, LockInv
  <2>2. \A u \in Batches : stage'[u] = "looping" => u = t
    BY <1>4, Zenon DEF ReadLatest, TypeInv, LockInv, HoldsLock
  <2>3. \A c \in CriteriaOf(t) : latest'[t][c] = LatestMatch(c, Rows(writes))
    BY <1>4, Zenon DEF ReadLatest, TypeInv
  <2> QED BY <2>1, <2>2, <2>3, Zenon DEF CheckInv
<1>5. ASSUME NEW t \in Batches, ExecuteRequest(t) PROVE CheckInv'
  <2>1. CASE UNCHANGED <<sequence, latest, pending>>
    BY <1>5, <2>1, ExecuteCases DEF CheckInv
  <2>2. CASE ~UNCHANGED <<sequence, latest, pending>>
    <3>0. PICK r, v, all, rows : r = BatchOf[t][index[t]] /\ v = NewWrite(t)
                               /\ all = writes \cup pending[t] /\ rows = Rows(all)
      BY Zenon
    <3>1. /\ stage[t] = "looping" /\ UNCHANGED <<writes, stage>> /\ index[t] <= Len(BatchOf[t])
          /\ Passes(t, r)
          /\ pending'[t] = pending[t] \cup {v}
          /\ latest'[t] = LatestAfter(t, r)
      BY <1>5, <2>2, <3>0, ExecuteCases, Zenon
    <3>2. \A u \in Batches : stage'[u] = "looping" => u = t
      BY <3>1, Zenon DEF LockInv, HoldsLock
    <3>3. WriteOK(v) /\ sequence < v.commit /\ v.checks = ChecksOf(r) /\ v.commit \in Nat
      BY <3>0, <3>1, NewWriteOK, Zenon DEF WriteOK
    <3>4. \A x \in all : WriteOK(x) /\ x.commit <= sequence /\ x.commit \in Nat
      BY <3>0, <3>1, Zenon DEF LogInv, WriteOK
    <3>5. \A x \in all : x.commit < v.commit /\ ~(v.commit < x.commit)
      BY <3>3, <3>4 DEF TypeInv
    <3>6. writes' \cup pending'[t] = all \cup {v}
      BY <3>0, <3>1, Zenon
    <3>7. ASSUME NEW c \in CriteriaOf(t)
          PROVE  latest'[t][c] = LatestMatch(c, Rows(writes' \cup pending'[t]))
      <4>1. \A row \in rows : row.pos \in Position /\ row.pos[1] <= sequence
        BY <3>0, <3>4, RowPositions DEF Rows
      <4>2. latest[t][c] = LatestMatch(c, rows)
        BY <3>0, <3>1, Zenon DEF CheckInv
      <4>3. PICK more : more = rows \cup WriteRows(v)
        BY Zenon
      <4>4. Rows(all \cup {v}) = more
        <5>1. Rows({v}) = WriteRows(v)
          BY Zenon DEF Rows
        <5>2. Rows(all \cup {v}) = Rows(all) \cup Rows({v})
          BY RowsUnion, Zenon
        <5> QED BY <3>0, <4>3, <5>1, <5>2, Zenon
      <4>5. LatestAfter(t, r)[c] = LatestMatch(c, more)
        <5>1. Accepting(t, r, c, rows, v, more)
          BY <3>0, <3>1, <4>1, <4>2, <4>3, Zenon DEF Accepting
        <5> QED BY <5>1, LatestAfterIs
      <4> QED BY <3>1, <3>6, <4>4, <4>5, Zenon
    <3>8. Satisfied(v.checks, rows)
      <4>1. ASSUME NEW check \in ChecksOf(r)
            PROVE  LatestPosition(check.criteria, rows) = check.position
        <5>1. PICK q \in Queries[r] : check = [criteria |-> q, position |-> observed[r][q]]
          BY Zenon DEF ChecksOf
        <5>2. check.criteria = q
          BY <5>1, Zenon
        <5>3. q \subseteq CriteriaOf(t)
          BY <3>0, <3>1, <5>1, DocsOf DEF CriteriaOf
        <5>4. \A c \in q : latest[t][c] = LatestMatch(c, rows)
          BY <3>0, <3>1, <5>3, Zenon DEF CheckInv
        <5>5. {latest[t][c] : c \in q} = {LatestMatch(c, rows) : c \in q}
          BY <5>4, Zenon
        <5>6. Greatest({latest[t][c] : c \in q}) = check.position
          BY <3>1, <5>2, Zenon DEF Passes
        <5> QED BY <5>2, <5>5, <5>6, Zenon DEF LatestPosition
      <4> QED BY <3>3, <4>1, Zenon DEF Satisfied
    <3>9. ASSUME NEW w \in pending'[t]
          PROVE  Satisfied(w.checks, Rows({x \in writes' \cup pending'[t] : x.commit < w.commit}))
      <4>1. CASE w = v
        <5>1. {x \in all \cup {v} : x.commit < w.commit} = all
          BY <3>3, <3>5, <4>1
        <5> QED BY <3>0, <3>6, <3>8, <4>1, <5>1, Zenon
      <4>2. CASE w \in pending[t]
        <5>1. w \in all
          BY <3>0, <4>2, Zenon
        <5>2. {x \in all \cup {v} : x.commit < w.commit} = {x \in all : x.commit < w.commit}
          BY <3>5, <5>1, Zenon
        <5>3. Satisfied(w.checks, Rows({x \in all : x.commit < w.commit}))
          BY <3>0, <3>1, <4>2, Zenon DEF CheckInv
        <5> QED BY <3>6, <5>2, <5>3, Zenon
      <4> QED BY <3>1, <4>1, <4>2, Zenon
    <3> QED BY <3>2, <3>7, <3>9, Zenon DEF CheckInv
  <2> QED BY <2>1, <2>2, Zenon
<1>6. ASSUME NEW t \in Batches, Commit(t) PROVE CheckInv'
  <2>1. \A u \in Batches : stage'[u] # "looping"
    BY <1>6, Zenon DEF Commit, TypeInv, LockInv, HoldsLock
  <2> QED BY <2>1, Zenon DEF CheckInv
<1> QED BY <1>1, <1>2, <1>3, <1>4, <1>5, <1>6, StepCases, Zenon

-----------------------------------------------------------------------------
(* The outcomes.                                                            *)

\* A write of a committed or open batch has a request of that batch.
LEMMA RequestInOneBatch ==
  ASSUME NEW t \in Batches, NEW u \in Batches, NEW r \in RequestsIn(t), r \in RequestsIn(u)
  PROVE  t = u
BY BatchAssumption, Zenon DEF RequestsIn

\* A request has one write at most, and only its own batch makes it.
LEMMA RequestStep ==
  ASSUME TypeInv, LockInv, LogInv, RequestInv, [Next]_vars
  PROVE  RequestInv'
<1>1. CASE Quiet
  BY <1>1, Zenon DEF Quiet, RequestInv
<1>2. ASSUME NEW s \in Servers, MigrateEnd(s) PROVE RequestInv'
  <2>1. writes' = {Cleared(w, s) : w \in writes} /\ UNCHANGED <<stage, index, pending>>
    BY <1>2, Zenon DEF MigrateEnd, Cleared, batchVars
  <2>2. \A z \in writes' : \E w \in writes : z.request = w.request
    BY <2>1, ClearedWrite DEF LogInv
  <2> QED BY <2>1, <2>2, Zenon DEF RequestInv
<1>3. ASSUME NEW t \in Batches, Compile(t) \/ Lock(t) \/ Abort(t) \/ ReadLatest(t) PROVE RequestInv'
  <2>1. UNCHANGED <<writes, pending, index>>
    BY <1>3, Zenon DEF Compile, Lock, Abort, ReadLatest
  <2>2. \A u \in Batches : stage'[u] = "looping" => stage[u] = "looping" \/ pending[u] = {}
    BY <1>3, Zenon DEF Compile, Lock, Abort, ReadLatest, TypeInv, LockInv
  <2>3. \A u \in Batches : stage[u] = "committed" => stage'[u] = "committed"
    BY <1>3, Zenon DEF Compile, Lock, Abort, ReadLatest, TypeInv
  <2> QED BY <2>1, <2>2, <2>3, Zenon DEF RequestInv
<1>4. ASSUME NEW t \in Batches, ExecuteRequest(t) PROVE RequestInv'
  <2>1. /\ stage[t] = "looping" /\ index[t] <= Len(BatchOf[t]) /\ UNCHANGED <<writes, stage>>
        /\ index' = [index EXCEPT ![t] = @ + 1]
    BY <1>4, ExecuteCases, Zenon
  <2>2. \A u \in Batches : stage'[u] = "looping" => u = t
    BY <2>1, Zenon DEF LockInv, HoldsLock
  <2>3. index[t] \in Nat /\ index'[t] = index[t] + 1
    BY <2>1, Zenon DEF TypeInv
  <2>4. PICK k : k = index[t]
    BY Zenon
  <2>5. DOMAIN BatchOf[t] \subseteq Nat /\ k \in DOMAIN BatchOf[t]
    BY <2>1, <2>4, StoreAssumption, DocsOf
  <2>6. \A w \in pending[t] : \E i \in DOMAIN BatchOf[t] : i < k /\ w.request = BatchOf[t][i]
    BY <2>1, <2>4, Zenon DEF RequestInv
  <2>7. pending'[t] = pending[t] \/ \E v : pending'[t] = pending[t] \cup {v} /\ v.request = BatchOf[t][k]
    BY <1>4, <2>1, <2>4, ExecuteCases, NewWriteOK, Zenon
  <2>8. ASSUME NEW w \in pending'[t]
        PROVE  \E i \in DOMAIN BatchOf[t] : i < index'[t] /\ w.request = BatchOf[t][i]
    BY <2>3, <2>4, <2>5, <2>6, <2>7
  <2>9. ASSUME NEW w \in pending'[t], NEW x \in pending'[t], w.request = x.request PROVE w = x
    <3>1. \A y \in pending[t] : y.request # BatchOf[t][k]
      <4> SUFFICES ASSUME NEW y \in pending[t], y.request = BatchOf[t][k] PROVE FALSE
        BY Zenon
      <4>1. PICK i \in DOMAIN BatchOf[t] : i < k /\ y.request = BatchOf[t][i]
        BY <2>6, Zenon
      <4>2. i = k
        BY <2>5, <4>1, BatchAssumption, Zenon
      <4> QED BY <2>3, <2>4, <4>1, <4>2
    <3> QED BY <2>1, <2>7, <2>9, <3>1 DEF RequestInv
  <2> QED BY <2>1, <2>2, <2>8, <2>9 DEF RequestInv
<1>5. ASSUME NEW t \in Batches, Commit(t) PROVE RequestInv'
  <2>1. stage[t] = "looping" /\ writes' = writes \cup pending[t] /\ stage'[t] = "committed"
    BY <1>5, Zenon DEF Commit, TypeInv
  <2>2. \A u \in Batches : stage'[u] # "looping" /\ (stage[u] = "committed" => stage'[u] = "committed")
    BY <1>5, Zenon DEF Commit, TypeInv, LockInv, HoldsLock
  <2>3. \A w \in pending[t] : w.request \in RequestsIn(t)
    BY <2>1, Zenon DEF RequestInv, RequestsIn
  <2> QED BY <2>1, <2>2, <2>3, Zenon DEF RequestInv
<1> QED BY <1>1, <1>2, <1>3, <1>4, <1>5, StepCases, Zenon

\* A caller is told that its request was saved just when it was.
LEMMA OutcomeStep ==
  ASSUME TypeInv, LockInv, LogInv, RequestInv, OutcomesAreTrue, [Next]_vars
  PROVE  OutcomesAreTrue'
<1>1. CASE UNCHANGED <<writes, outcome>>
  BY <1>1, Zenon DEF OutcomesAreTrue
<1>2. ASSUME NEW s \in Servers, MigrateEnd(s) PROVE OutcomesAreTrue'
  <2>1. writes' = {Cleared(w, s) : w \in writes} /\ outcome' = outcome
    BY <1>2, Zenon DEF MigrateEnd, Cleared, batchVars
  <2>2. \A w \in writes : Cleared(w, s).request = w.request
    BY ClearedWrite, Zenon DEF LogInv
  <2>3. ASSUME NEW r \in Requests
        PROVE  {z \in writes' : z.request = r} = {Cleared(w, s) : w \in {x \in writes : x.request = r}}
    BY <2>1, <2>2, Zenon
  <2>4. ASSUME NEW r \in Requests
        PROVE  LET saved == {z \in writes' : z.request = r} IN
               /\ outcome[r] = "accepted" => \E w \in saved : saved = {w}
               /\ outcome[r] = "conflict" => saved = {}
    BY <2>3 DEF OutcomesAreTrue
  <2> QED BY <2>1, <2>4, Zenon DEF OutcomesAreTrue
<1>3. ASSUME NEW t \in Batches, Abort(t) PROVE OutcomesAreTrue'
  BY <1>3, Zenon DEF Abort, OutcomesAreTrue
<1>4. ASSUME NEW t \in Batches, Commit(t) PROVE OutcomesAreTrue'
  <2>1. stage[t] = "looping" /\ writes' = writes \cup pending[t]
    BY <1>4, Zenon DEF Commit
  <2>2. \A w \in pending[t] : w.request \in RequestsIn(t)
    BY <2>1, Zenon DEF RequestInv, RequestsIn
  <2>3. ASSUME NEW w \in writes, w.request \in RequestsIn(t), w.request \in Requests PROVE FALSE
    <3>1. PICK u \in Batches : stage[u] = "committed" /\ w.request \in RequestsIn(u)
      BY <2>3, Zenon DEF RequestInv
    <3>2. u = t
      BY <2>3, <3>1, RequestInOneBatch, Zenon
    <3> QED BY <2>1, <3>1, <3>2, Zenon
  <2>4. ASSUME NEW r \in Requests
        PROVE  LET saved == {w \in writes' : w.request = r} IN
               /\ outcome'[r] = "accepted" => \E w \in saved : saved = {w}
               /\ outcome'[r] = "conflict" => saved = {}
    <3>1. CASE r \notin RequestsIn(t)
      <4>1. {w \in writes' : w.request = r} = {w \in writes : w.request = r} /\ outcome'[r] = outcome[r]
        BY <1>4, <2>1, <2>2, <3>1, Zenon DEF Commit
      <4> QED BY <4>1, Zenon DEF OutcomesAreTrue
    <3>2. CASE r \in RequestsIn(t)
      <4>1. {w \in writes' : w.request = r} = {w \in pending[t] : w.request = r}
        BY <2>1, <2>3, <3>2, Zenon
      <4>2. \A w, x \in pending[t] : w.request = r /\ x.request = r => w = x
        BY <2>1, Zenon DEF RequestInv
      <4>3. /\ outcome'[r] = "accepted" => r \in AcceptedIn(t)
            /\ outcome'[r] = "conflict" => r \notin AcceptedIn(t)
        BY <1>4, <3>2, Zenon DEF Commit
      <4> QED BY <4>1, <4>2, <4>3, Zenon DEF AcceptedIn
    <3> QED BY <3>1, <3>2, Zenon
  <2> QED BY <2>4, Zenon DEF OutcomesAreTrue
<1>5. ASSUME NEW t \in Batches, Compile(t) \/ Lock(t) \/ ReadLatest(t) \/ ExecuteRequest(t)
      PROVE  UNCHANGED <<writes, outcome>>
  BY <1>5, Zenon DEF Compile, Lock, ReadLatest, ExecuteRequest
<1>6. Quiet => UNCHANGED <<writes, outcome>>
  BY Zenon DEF Quiet
<1> QED BY <1>1, <1>2, <1>3, <1>4, <1>5, <1>6, StepCases, Zenon

-----------------------------------------------------------------------------
(* Initially.                                                               *)

\* The sequence starts after the restored writes.
LEMMA InitialSequence ==
  ASSUME Init
  PROVE  sequence \in Nat /\ \A w \in Restored : w.commit <= sequence
<1>1. \A w \in Restored : w.commit \in Nat
  BY RestoredAssumption
<1>2. CASE Restored = {}
  BY <1>2, Zenon DEF Init
<1>3. CASE Restored # {}
  <2> DEFINE S == {<<w.commit, 0>> : w \in Restored}
  <2>1. S \in SUBSET Position /\ S # {}
    <3>1. \A w \in Restored : <<w.commit, 0>> \in Position
      BY <1>1 DEF Position
    <3>2. PICK w \in Restored : TRUE
      BY <1>3, Zenon
    <3>3. <<w.commit, 0>> \in S
      BY Zenon
    <3> QED BY <3>1, <3>3, Zenon
  <2>2. PICK last \in Restored : \A w \in Restored : w.commit <= last.commit
    BY <1>3, RestoredAssumption, Zenon
  <2>3. PICK p : p = <<last.commit, 0>> /\ p \in S /\ \A q \in S : q = p \/ Before(q, p)
    <3>1. \A w \in Restored : <<w.commit, 0>> = <<last.commit, 0>> \/ Before(<<w.commit, 0>>, <<last.commit, 0>>)
      BY <1>1, <2>2 DEF Before
    <3> QED BY <3>1, Zenon
  <2>4. sequence = p[1]
    <3>1. sequence = Greatest(S)[1]
      BY <1>3, Zenon DEF Init
    <3> HIDE DEF S
    <3> QED BY <2>1, <2>3, <3>1, GreatestIs, Zenon
  <2>5. ASSUME NEW w \in Restored PROVE w.commit <= sequence
    <3>1. <<w.commit, 0>> \in S
      BY Zenon
    <3>2. <<w.commit, 0>> = p \/ Before(<<w.commit, 0>>, p)
      BY <2>3, <3>1, Zenon
    <3> QED BY <1>1, <2>3, <2>4, <3>2 DEF Before
  <2>6. sequence \in Nat
    BY <1>1, <2>3, <2>4, Zenon
  <2> QED BY <2>5, <2>6, Zenon
<1> QED BY <1>2, <1>3, Zenon

-----------------------------------------------------------------------------
(* The abstract event log.                                                  *)

\* The event log reads rows and checks as the store does.
LEMMA SameReading ==
  /\ \A w : Log!WriteRows(w) = WriteRows(w)
  /\ \A ws : Log!Rows(ws) = Rows(ws)
  /\ \A p, q : Log!Before(p, q) = Before(p, q)
  /\ \A checks, rows : Log!Satisfied(checks, rows) = Satisfied(checks, rows)
BY Zenon DEF Log!WriteRows, WriteRows, Log!Rows, Rows, Log!Before, Before, Log!Satisfied, Satisfied,
       Log!LatestPosition, LatestPosition, Log!LatestMatch, LatestMatch, Log!Greatest, Greatest,
       Log!Matches, Matches, Log!NotExists, NotExists

\* Every step leaves the history of the boundary or saves to it.
LEMMA LogRefined ==
  ASSUME TypeInv, LockInv, LogInv, CheckInv, [Next]_vars
  PROVE  [Log!Save]_(Saved(writes))
<1>0. Saved(writes) = History(writes) /\ Saved(writes') = History(writes')
  BY Zenon DEF Saved, History, Slim
<1>1. CASE UNCHANGED writes
  BY <1>1, Zenon DEF Saved
<1>2. ASSUME NEW s \in Servers, MigrateEnd(s) PROVE UNCHANGED Saved(writes)
  <2>1. writes' = {Cleared(w, s) : w \in writes}
    BY <1>2, Zenon DEF MigrateEnd, Cleared
  <2>2. \A w \in writes : Slim(Cleared(w, s)) = Slim(w)
    BY ClearedWrite, Zenon DEF LogInv, Slim
  <2> QED BY <1>0, <2>1, <2>2 DEF Saved, History
<1>3. ASSUME NEW t \in Batches, Commit(t) PROVE Log!Save
  <2>0. PICK old, new : old = writes /\ new = pending[t]
    BY Zenon
  <2>1. stage[t] = "looping" /\ writes' = old \cup new
    BY <1>3, <2>0, Zenon DEF Commit
  <2>2. \A w \in old \cup new : WriteOK(w) /\ w.commit \in Nat /\ w.first \in Nat /\ w.first < w.commit
    BY <2>0, <2>1 DEF LogInv, WriteOK
  <2>3. \A w \in new, x \in old : x.commit <= w.first
    BY <2>0, <2>1, Zenon DEF LogInv
  <2>4. \A w, x \in new : w = x \/ w.commit <= x.first \/ x.commit <= w.first
    BY <2>0, <2>1, Zenon DEF LogInv, Apart
  <2>5. \A w \in new : Satisfied(w.checks, Rows({x \in old \cup new : x.commit < w.commit}))
    BY <2>0, <2>1, Zenon DEF CheckInv
  <2>6. ASSUME NEW w \in new PROVE DOMAIN w.docs # {}
    <3>1. w.docs \in Seq(SUBSET Predicates) /\ w.docs # <<>>
      BY <2>2, Zenon DEF WriteOK
    <3> QED BY <3>1, FirstOf, Zenon
  <2>7. Following(old, new)
    <3>1. \A w \in new, x \in old : x.commit < w.commit
      BY <2>2, <2>3
    <3>2. \A w, x \in new : w = x \/ w.commit # x.commit
      BY <2>2, <2>4
    <3>3. \A w \in old \cup new : w.commit \in Int
      BY <2>2
    <3> QED BY <2>5, <2>6, <3>1, <3>2, <3>3, Zenon DEF Following
  <2>8. PICK all : all = History(old \cup new)
    BY Zenon
  <2>9. Saved(writes) = History(old) /\ Saved(writes)' = all /\ History(old) \subseteq all
    BY <1>0, <2>0, <2>1, <2>8, Zenon DEF Saved, History, Slim
  <2>10. \A h \in all \ History(old) : SavedLast(h, History(old), Log!Earlier(h, all), all)
    BY <2>7, <2>8, SavedAtEnd, Zenon DEF Log!Earlier
  <2> QED BY <2>9, <2>10, SameReading, Zenon DEF Log!Save, SavedLast
<1>4. ASSUME NEW t \in Batches, Compile(t) \/ Lock(t) \/ ReadLatest(t) \/ ExecuteRequest(t) \/ Abort(t)
      PROVE  UNCHANGED writes
  BY <1>4, Zenon DEF Compile, Lock, ReadLatest, ExecuteRequest, Abort
<1>5. Quiet => UNCHANGED writes
  BY Zenon DEF Quiet
<1> QED BY <1>1, <1>2, <1>3, <1>4, <1>5, StepCases, Zenon

-----------------------------------------------------------------------------
(* Ascending reads.                                                         *)

\* A registered boundary stays registered.
LEMMA RegisteredStays ==
  ASSUME TypeInv, [Next]_vars, Registered
  PROVE  Registered'
<1>1. PICK s \in Servers : migration[s] = "done"
  BY Zenon DEF Registered
<1>2. \/ migration' = migration
      \/ \E u \in Servers : \E m : migration[u] # "done" /\ migration' = [migration EXCEPT ![u] = m]
  <2>1. ASSUME NEW u \in Servers, MigrateBegin(u) \/ MigrateEnd(u)
        PROVE  \E m : migration[u] # "done" /\ migration' = [migration EXCEPT ![u] = m]
    BY <2>1, Zenon DEF MigrateBegin, MigrateEnd
  <2>2. ASSUME NEW o \in Others, OtherBegin(o) \/ OtherEnd(o) PROVE migration' = migration
    BY <2>2, Zenon DEF OtherBegin, OtherEnd, serverVars
  <2>3. ASSUME NEW r \in Requests, NEW q \in Queries[r], Observe(r, q) PROVE migration' = migration
    BY <2>3, Zenon DEF Observe, serverVars
  <2>4. ASSUME NEW t \in Batches,
               Compile(t) \/ Lock(t) \/ AssignXid(t) \/ ReadLatest(t) \/ ExecuteRequest(t) \/ Commit(t) \/ Abort(t)
        PROVE  migration' = migration
    BY <2>4, Zenon DEF Compile, Lock, AssignXid, ReadLatest, ExecuteRequest, Commit, Abort, serverVars
  <2>5. ASSUME NEW c \in Readers, ReadNext(c) PROVE migration' = migration
    BY <2>5, Zenon DEF ReadNext, serverVars
  <2>6. CASE UNCHANGED vars
    BY <2>6, Zenon DEF vars, serverVars
  <2> QED BY <2>1, <2>2, <2>3, <2>4, <2>5, <2>6, Zenon DEF Next
<1> QED BY <1>1, <1>2, Zenon DEF Registered, TypeInv

\* A transaction id taken by anyone else is above those of the log.
LEMMA XidQuiet ==
  ASSUME TypeInv, LogInv, XidInv, UNCHANGED <<writes, stage, xid, pending>>,
         Registered => Registered',
         Registered' => Registered \/ \A w \in writes : w.xid = NullXid,
         nextXid' = nextXid \/ nextXid' = nextXid + 1
  PROVE  XidInv'
<1>1. \A t \in Batches : HoldsLock(t)' = HoldsLock(t)
  BY Zenon DEF HoldsLock
<1>2. /\ \A n \in Nat : n < nextXid => n < nextXid'
      /\ NullXid < nextXid' /\ NullXid <= NullXid
  BY DEF TypeInv, NullXid
<1>3. \A t \in Batches : HoldsLock(t) /\ xid[t] # NullXid => xid[t] < nextXid'
  BY <1>2, Zenon DEF TypeInv, XidInv
<1>4. Registered' => \A w \in writes : w.xid < nextXid'
  BY <1>2, Zenon DEF XidInv, LogInv, WriteOK
<1>5. Registered' => \A w, x \in writes : w.commit < x.commit => w.xid <= x.xid
  BY <1>2, Zenon DEF XidInv
<1>6. \A t \in Batches : stage[t] # "idle" => Registered'
  BY Zenon DEF XidInv
<1> QED BY <1>1, <1>3, <1>4, <1>5, <1>6, Zenon DEF XidInv

\* As long as servers start cleanly the transaction ids stay in log order.
LEMMA XidStep ==
  ASSUME TypeInv, LockInv, LogInv, CleanStart, XidInv, [Next]_vars
  PROVE  XidInv'
<1>0. /\ \A w \in writes : w.xid \in Nat /\ w.commit \in Nat
      /\ nextXid \in Nat
      /\ Registered => Registered'
  BY RegisteredStays, Zenon DEF LogInv, WriteOK, TypeInv
<1>1. ASSUME NEW o \in Others, OtherBegin(o) \/ OtherEnd(o) PROVE XidInv'
  <2>1. /\ UNCHANGED <<writes, stage, xid, pending, migration>>
        /\ nextXid' = nextXid \/ nextXid' = nextXid + 1
    BY <1>1, Zenon DEF OtherBegin, OtherEnd, serverVars, batchVars
  <2> QED BY <2>1, XidQuiet, Zenon DEF Registered
<1>2. ASSUME NEW s \in Servers, MigrateBegin(s) PROVE XidInv'
  <2>1. /\ UNCHANGED <<writes, stage, xid, pending>> /\ nextXid' = nextXid + 1
        /\ migration' = [migration EXCEPT ![s] = "running"]
    BY <1>2, Zenon DEF MigrateBegin, batchVars
  <2>2. Registered' => Registered
    BY <2>1, Zenon DEF Registered, TypeInv
  <2> QED BY <1>0, <2>1, <2>2, XidQuiet, Zenon
<1>3. ASSUME NEW s \in Servers, MigrateEnd(s) PROVE XidInv'
  <2>1. /\ migration[s] = "running" /\ writes' = {Cleared(w, s) : w \in writes}
        /\ UNCHANGED <<nextXid, stage, xid, pending>>
    BY <1>3, Zenon DEF MigrateEnd, Cleared, batchVars
  <2>2. CASE Registered
    <3>1. ASSUME NEW w \in writes PROVE Cleared(w, s) = w
      <4>1. w.xid < serverXid[s] /\ serverXid[s] \in Nat
        BY <2>1, <2>2, Zenon DEF CleanStart, TypeInv
      <4>2. ~(w.xid >= serverXid[s])
        BY <1>0, <4>1
      <4> QED BY <4>2 DEF Cleared, LogInv, WriteOK
    <3>2. writes' = writes
      BY <2>1, <3>1, Zenon
    <3> QED BY <1>0, <2>1, <2>2, <3>2, XidQuiet, Zenon
  <2>3. CASE ~Registered
    <3>1. ASSUME NEW z \in writes' PROVE z.xid = NullXid
      <4>1. PICK w \in writes : z = Cleared(w, s)
        BY <2>1, Zenon
      <4>2. w.xid = NullXid \/ w.xid >= serverXid[s]
        BY <2>1, <2>3, Zenon DEF CleanStart
      <4> QED BY <4>1, <4>2, ClearedWrite, Zenon DEF LogInv
    <3>2. \A t \in Batches : stage[t] = "idle" /\ xid[t] = NullXid
      BY <2>3, Zenon DEF XidInv
    <3>3. NullXid < nextXid /\ NullXid <= NullXid
      BY DEF TypeInv, NullXid
    <3> QED BY <2>1, <3>1, <3>2, <3>3, Zenon DEF XidInv, HoldsLock
  <2> QED BY <2>2, <2>3, Zenon
<1>4. ASSUME NEW r \in Requests, NEW q \in Queries[r], Observe(r, q) PROVE XidInv'
  BY <1>4, XidQuiet, Zenon DEF Observe, serverVars, batchVars, clusterVars, Registered
<1>5. ASSUME NEW c \in Readers, ReadNext(c) PROVE XidInv'
  BY <1>5, XidQuiet, Zenon DEF ReadNext, serverVars, batchVars, clusterVars, Registered
<1>6. CASE UNCHANGED vars
  BY <1>6, XidQuiet, Zenon DEF vars, serverVars, batchVars, clusterVars, Registered
<1>7. ASSUME NEW t \in Batches,
             Compile(t) \/ Lock(t) \/ AssignXid(t) \/ ReadLatest(t) \/ ExecuteRequest(t) \/ Commit(t) \/ Abort(t)
      PROVE  Registered' = Registered
  <2>1. migration' = migration
    BY <1>7, Zenon DEF Compile, Lock, AssignXid, ReadLatest, ExecuteRequest, Commit, Abort, serverVars
  <2> QED BY <2>1, Zenon DEF Registered
<1>8. ASSUME NEW t \in Batches, Compile(t) PROVE XidInv'
  <2>1. /\ stage[t] = "idle" /\ Registered /\ Registered' /\ UNCHANGED <<writes, xid, pending, nextXid>>
        /\ stage' = [stage EXCEPT ![t] = "waiting"]
    BY <1>7, <1>8, Zenon DEF Compile, clusterVars
  <2> QED BY <2>1, Zenon DEF XidInv, HoldsLock, TypeInv
<1>9. ASSUME NEW t \in Batches, Lock(t) PROVE XidInv'
  <2>1. /\ stage[t] = "waiting" /\ Registered' = Registered /\ UNCHANGED <<writes, xid, pending, nextXid>>
        /\ stage' = [stage EXCEPT ![t] = "locked"]
    BY <1>7, <1>9, Zenon DEF Lock, clusterVars
  <2> QED BY <2>1, Zenon DEF XidInv, HoldsLock, TypeInv
<1>10. ASSUME NEW t \in Batches, AssignXid(t) PROVE XidInv'
  <2>1. /\ stage[t] = "locked" /\ Registered' = Registered /\ UNCHANGED <<writes, stage, pending>>
        /\ xid' = [xid EXCEPT ![t] = nextXid] /\ nextXid' = nextXid + 1
    BY <1>7, <1>10, Zenon DEF AssignXid, XidDue
  <2>2. \A u \in Batches : HoldsLock(u) => u = t
    BY <2>1, Zenon DEF LockInv, HoldsLock
  <2>3. Registered /\ \A w \in writes : w.xid < nextXid /\ w.xid < nextXid + 1
    <3>1. Registered /\ \A w \in writes : w.xid < nextXid
      BY <2>1, Zenon DEF XidInv
    <3> QED BY <1>0, <3>1
  <2>4. xid'[t] = nextXid /\ xid'[t] < nextXid' /\ \A u \in Batches : u # t => xid'[u] = xid[u]
    BY <1>0, <2>1 DEF TypeInv
  <2>5. \A u \in Batches : stage[u] = "looping" => HoldsLock(u) /\ u # t
    BY <2>1, Zenon DEF HoldsLock
  <2> QED BY <2>1, <2>2, <2>3, <2>4, <2>5, Zenon DEF XidInv, HoldsLock
<1>11. ASSUME NEW t \in Batches, ReadLatest(t) PROVE XidInv'
  <2>1. /\ stage[t] = "locked" /\ xid[t] # NullXid /\ pending[t] = {}
        /\ Registered' = Registered /\ UNCHANGED <<writes, xid, pending, nextXid>>
        /\ stage' = [stage EXCEPT ![t] = "looping"]
    BY <1>7, <1>11, Zenon DEF ReadLatest, clusterVars, LockInv
  <2> QED BY <2>1, Zenon DEF XidInv, HoldsLock, TypeInv
<1>12. ASSUME NEW t \in Batches, ExecuteRequest(t) PROVE XidInv'
  <2>1. /\ stage[t] = "looping" /\ Registered' = Registered /\ UNCHANGED <<writes, xid, stage, nextXid>>
        /\ index[t] <= Len(BatchOf[t])
    BY <1>7, <1>12, Zenon DEF ExecuteRequest, clusterVars
  <2>2. \A u \in Batches : stage[u] = "looping" => u = t
    BY <2>1, Zenon DEF LockInv, HoldsLock
  <2>3. pending'[t] = pending[t] \/ pending'[t] = pending[t] \cup {NewWrite(t)}
    BY <1>12, ExecuteCases, Zenon
  <2>4. NewWrite(t).xid = xid[t]
    BY <2>1, NewWriteOK, Zenon
  <2>5. \A w \in pending'[t] : w.xid = xid[t]
    BY <2>1, <2>3, <2>4, Zenon DEF XidInv
  <2> QED BY <2>1, <2>2, <2>5, Zenon DEF XidInv, HoldsLock
<1>13. ASSUME NEW t \in Batches, Commit(t) PROVE XidInv'
  <2>1. /\ stage[t] = "looping" /\ Registered' = Registered /\ UNCHANGED <<xid, pending, nextXid>>
        /\ stage' = [stage EXCEPT ![t] = "committed"] /\ writes' = writes \cup pending[t]
    BY <1>7, <1>13, Zenon DEF Commit
  <2>2. \A u \in Batches : ~HoldsLock(u)' /\ stage'[u] # "looping"
    BY <2>1, Zenon DEF LockInv, HoldsLock, TypeInv
  <2>3. /\ xid[t] \in Nat /\ xid[t] < nextXid /\ \A w \in writes : w.xid < xid[t]
        /\ \A w \in pending[t] : w.xid = xid[t]
    BY <2>1, Zenon DEF XidInv, HoldsLock, TypeInv
  <2>4. \A w \in pending[t] : w.commit \in Nat /\ \A x \in writes : ~(w.commit < x.commit)
    BY <1>0, <2>1 DEF LogInv, WriteOK
  <2>5. ASSUME NEW w \in writes', NEW x \in writes', w.commit < x.commit, Registered PROVE w.xid <= x.xid
    BY <1>0, <2>1, <2>3, <2>4, <2>5 DEF XidInv
  <2>6. Registered /\ \A w \in writes' : w.xid < nextXid
    BY <2>1, <2>3, Zenon DEF XidInv
  <2>7. \A u \in Batches : stage'[u] \in {"idle", "waiting"} => xid[u] = NullXid
    BY <2>1, Zenon DEF XidInv, TypeInv
  <2> QED BY <2>1, <2>2, <2>5, <2>6, <2>7, Zenon DEF XidInv
<1>14. ASSUME NEW t \in Batches, Abort(t) PROVE XidInv'
  <2>1. /\ stage[t] # "idle" /\ Registered' = Registered /\ UNCHANGED <<writes, xid, pending, nextXid>>
        /\ stage' = [stage EXCEPT ![t] = "aborted"]
    BY <1>7, <1>14, Zenon DEF Abort
  <2> QED BY <2>1, Zenon DEF XidInv, HoldsLock, TypeInv
<1> QED BY <1>1, <1>2, <1>3, <1>4, <1>5, <1>6, <1>8, <1>9, <1>10, <1>11, <1>12, <1>13, <1>14, Zenon DEF Next

\* The rows only grow, after the ones there are.
LEMMA RowsGrow ==
  ASSUME TypeInv, LockInv, LogInv, [Next]_vars
  PROVE  \/ Rows(writes)' = Rows(writes)
         \/ /\ UNCHANGED readerVars
            /\ Rows(writes) \subseteq Rows(writes)'
            /\ \A new \in Rows(writes)' : new \notin Rows(writes) =>
                  /\ new.pos \in Position /\ 0 <= new.pos[1]
                  /\ \A old \in Rows(writes) : old.pos[1] < new.pos[1]
<1>1. CASE UNCHANGED writes
  BY <1>1, Zenon DEF Rows
<1>2. ASSUME NEW s \in Servers, MigrateEnd(s) PROVE Rows(writes)' = Rows(writes)
  <2>1. writes' = {Cleared(w, s) : w \in writes}
    BY <1>2, Zenon DEF MigrateEnd, Cleared
  <2>2. Rows(writes)' = Rows(writes')
    BY Zenon DEF Rows
  <2> QED BY <2>1, <2>2, ClearedRows, Zenon DEF LogInv
<1>3. ASSUME NEW t \in Batches, Commit(t)
      PROVE  /\ UNCHANGED readerVars
             /\ Rows(writes) \subseteq Rows(writes)'
             /\ \A new \in Rows(writes)' : new \notin Rows(writes) =>
                   /\ new.pos \in Position /\ 0 <= new.pos[1]
                   /\ \A old \in Rows(writes) : old.pos[1] < new.pos[1]
  <2>1. stage[t] = "looping" /\ writes' = writes \cup pending[t] /\ UNCHANGED readerVars
    BY <1>3, Zenon DEF Commit
  <2>2. Rows(writes)' = Rows(writes) \cup Rows(pending[t])
    BY <2>1, Zenon DEF Rows
  <2>3. ASSUME NEW new \in Rows(pending[t]), NEW old \in Rows(writes)
        PROVE  old.pos[1] < new.pos[1]
    <3>1. PICK w \in pending[t] : new \in WriteRows(w)
      BY Zenon DEF Rows
    <3>2. PICK x \in writes : old \in WriteRows(x)
      BY Zenon DEF Rows
    <3>3. WriteOK(w) /\ WriteOK(x) /\ x.commit <= w.first
      BY <2>1, Zenon DEF LogInv
    <3>4. x.commit < w.commit
      BY <3>3 DEF WriteOK
    <3> QED BY <3>1, <3>2, <3>3, <3>4, RowPositions, Zenon
  <2>4. ASSUME NEW new \in Rows(pending[t]) PROVE new.pos \in Position /\ 0 <= new.pos[1]
    <3>1. PICK w \in pending[t] : new \in WriteRows(w)
      BY Zenon DEF Rows
    <3>2. WriteOK(w) /\ w.commit \in Nat
      BY <2>1, Zenon DEF LogInv, WriteOK
    <3> QED BY <3>1, <3>2, RowPositions
  <2> QED BY <2>1, <2>2, <2>3, <2>4, Zenon
<1>4. ASSUME NEW t \in Batches, Compile(t) \/ Lock(t) \/ ReadLatest(t) \/ ExecuteRequest(t) \/ Abort(t)
      PROVE  UNCHANGED writes
  BY <1>4, Zenon DEF Compile, Lock, ReadLatest, ExecuteRequest, Abort
<1>5. Quiet => UNCHANGED writes
  BY Zenon DEF Quiet
<1> QED BY <1>1, <1>2, <1>3, <1>4, <1>5, StepCases, Zenon

\* The writes that an ascending read may return are the first ones of the log.
LEMMA VisibleIsPrefix ==
  ASSUME LeastExists, TypeInv, LogInv, XidInv, Registered,
         NEW row \in VisibleAscending, NEW other \in Rows(writes),
         other.pos = row.pos \/ Before(other.pos, row.pos)
  PROVE  other \in VisibleAscending
<1>1. PICK w \in writes : row \in WriteRows(w) /\ (w.xid = NullXid \/ w.xid < Xmin)
  BY Zenon DEF VisibleAscending
<1>2. PICK x \in writes : other \in WriteRows(x)
  BY Zenon DEF Rows
<1>3. /\ WriteOK(w) /\ w.commit \in Nat /\ w.first \in Nat /\ w.first < w.commit /\ w.xid \in Nat
      /\ WriteOK(x) /\ x.commit \in Nat /\ x.first \in Nat /\ x.first < x.commit /\ x.xid \in Nat
  BY DEF LogInv, WriteOK
<1>4. x.commit <= w.commit
  <2>1. row.pos[1] = w.commit /\ other.pos[1] = x.commit
    BY <1>1, <1>2, <1>3, RowPositions, Zenon
  <2> QED BY <1>3, <2>1 DEF Before
<1>5. x = w \/ x.commit < w.commit
  <2>1. x = w \/ x.commit <= w.first \/ w.commit <= x.first
    BY Zenon DEF LogInv, Apart
  <2> QED BY <1>3, <1>4, <2>1
<1>6. x.xid <= w.xid
  BY <1>3, <1>5 DEF XidInv
<1>7. Xmin \in Nat
  <2> DEFINE S == active \cup {nextXid}
  <2>1. S \in SUBSET Nat /\ S # {}
    BY DEF TypeInv
  <2>2. \E y \in S : \A z \in S : y <= z
    <3> HIDE DEF S
    <3> QED BY <2>1, Zenon DEF LeastExists
  <2> QED BY <2>1, <2>2, Zenon DEF Xmin
<1>8. x.xid = NullXid \/ x.xid < Xmin
  BY <1>1, <1>3, <1>6, <1>7 DEF NullXid
<1> QED BY <1>2, <1>8, Zenon DEF VisibleAscending

\* Each action leaves the readers alone but ReadNext.
LEMMA ReaderCases ==
  ASSUME [Next]_vars
  PROVE  UNCHANGED readerVars \/ \E c \in Readers : ReadNext(c)
<1>1. ASSUME NEW s \in Servers, MigrateBegin(s) \/ MigrateEnd(s) PROVE UNCHANGED readerVars
  BY <1>1, Zenon DEF MigrateBegin, MigrateEnd
<1>2. ASSUME NEW o \in Others, OtherBegin(o) \/ OtherEnd(o) PROVE UNCHANGED readerVars
  BY <1>2, Zenon DEF OtherBegin, OtherEnd
<1>3. ASSUME NEW r \in Requests, NEW q \in Queries[r], Observe(r, q) PROVE UNCHANGED readerVars
  BY <1>3, Zenon DEF Observe
<1>4. ASSUME NEW t \in Batches,
             Compile(t) \/ Lock(t) \/ AssignXid(t) \/ ReadLatest(t) \/ ExecuteRequest(t) \/ Commit(t) \/ Abort(t)
      PROVE  UNCHANGED readerVars
  BY <1>4, Zenon DEF Compile, Lock, AssignXid, ReadLatest, ExecuteRequest, Commit, Abort
<1>5. CASE UNCHANGED vars
  BY <1>5, Zenon DEF vars
<1> QED BY <1>1, <1>2, <1>3, <1>4, <1>5, Zenon DEF Next

\* The positions of rows are positions.
LEMMA RowsPositions ==
  ASSUME LogInv
  PROVE  \A row \in Rows(writes) : row.pos \in Position /\ 0 <= row.pos[1]
<1> SUFFICES ASSUME NEW row \in Rows(writes) PROVE row.pos \in Position /\ 0 <= row.pos[1]
  BY Zenon
<1>1. PICK w \in writes : row \in WriteRows(w)
  BY Zenon DEF Rows
<1>2. WriteOK(w) /\ w.commit \in Nat
  BY Zenon DEF LogInv, WriteOK
<1> QED BY <1>1, <1>2, RowPositions

\* A page that stops at the oldest running transaction skips nothing: what
\* commits later is after every row a reader has been given.
LEMMA ReaderStep ==
  ASSUME LeastExists, TypeInv, LockInv, LogInv, XidInv, ReaderInv, AscendingReadsMissNothing, [Next]_vars
  PROVE  ReaderInv' /\ AscendingReadsMissNothing'
<1>0. PICK rows : rows = Rows(writes)
  BY Zenon
<1>1. \A row \in rows : row.pos \in Position /\ 0 <= row.pos[1]
  BY <1>0, RowsPositions, Zenon
<1>2. CASE UNCHANGED readerVars
  <2>1. \/ Rows(writes)' = rows
        \/ /\ rows \subseteq Rows(writes)'
           /\ \A new \in Rows(writes)' : new \notin rows =>
                 new.pos \in Position /\ 0 <= new.pos[1] /\ \A old \in rows : old.pos[1] < new.pos[1]
    BY <1>0, RowsGrow, Zenon
  <2>2. cursor' = cursor /\ delivered' = delivered
    BY <1>2, Zenon DEF readerVars
  <2>3. ReaderInv'
    BY <1>0, <2>1, <2>2, Zenon DEF ReaderInv
  <2>4. ASSUME NEW c \in Readers, NEW new \in Rows(writes)',
               new.pos = cursor[c] \/ Before(new.pos, cursor[c])
        PROVE  new \in rows
    <3>1. SUFFICES ASSUME new.pos \in Position, 0 <= new.pos[1], \A old \in rows : old.pos[1] < new.pos[1]
                   PROVE  FALSE
      BY <2>1, Zenon
    <3>2. CASE cursor[c] = NotExists
      BY <2>4, <3>1, <3>2 DEF NotExists, Before, Position
    <3>3. CASE \E row \in rows : cursor[c] = row.pos
      BY <1>1, <2>4, <3>1, <3>3 DEF Before, Position
    <3> QED BY <1>0, <3>2, <3>3, Zenon DEF ReaderInv
  <2>5. AscendingReadsMissNothing'
    BY <1>0, <2>2, <2>4, Zenon DEF AscendingReadsMissNothing
  <2> QED BY <2>3, <2>5, Zenon
<1>3. ASSUME NEW c \in Readers, ReadNext(c) PROVE ReaderInv' /\ AscendingReadsMissNothing'
  <2>1. Registered /\ Rows(writes)' = rows
    BY <1>0, <1>3, Zenon DEF ReadNext, Rows
  <2>2. PICK row \in VisibleAscending :
           /\ \A other \in VisibleAscending : Before(cursor[c], other.pos) => ~Before(other.pos, row.pos)
           /\ cursor' = [cursor EXCEPT ![c] = row.pos]
           /\ delivered' = [delivered EXCEPT ![c] = @ \cup {row.pos}]
    BY <1>3, Zenon DEF ReadNext
  <2>3. row \in rows
    BY <1>0, Zenon DEF VisibleAscending, Rows
  <2>4. row.pos \in Position
    BY <1>1, <2>3, Zenon
  <2>5. ReaderInv'
    BY <1>0, <2>1, <2>2, <2>3, <2>4, Zenon DEF ReaderInv
  <2>6. ASSUME NEW other \in rows, other.pos = row.pos \/ Before(other.pos, row.pos)
        PROVE  other.pos \in delivered[c] \cup {row.pos}
    <3>1. cursor[c] \in Position /\ other.pos \in Position
      BY <1>1, Zenon DEF ReaderInv
    <3>2. CASE other.pos = cursor[c] \/ Before(other.pos, cursor[c])
      BY <1>0, <3>2, Zenon DEF AscendingReadsMissNothing
    <3>3. CASE Before(cursor[c], other.pos)
      <4>1. other \in VisibleAscending
        BY <1>0, <2>1, <2>6, VisibleIsPrefix, Zenon
      <4> QED BY <2>2, <2>6, <3>3, <4>1, Zenon
    <3> QED BY <3>1, <3>2, <3>3, BeforeIsTotal, Zenon
  <2>7. AscendingReadsMissNothing'
    <3>1. cursor'[c] = row.pos /\ delivered'[c] = delivered[c] \cup {row.pos}
      BY <2>2, Zenon DEF ReaderInv
    <3>2. \A d \in Readers : d # c => cursor'[d] = cursor[d] /\ delivered'[d] = delivered[d]
      BY <2>2, Zenon DEF ReaderInv
    <3> QED BY <1>0, <2>1, <2>6, <3>1, <3>2, Zenon DEF AscendingReadsMissNothing
  <2> QED BY <2>5, <2>7, Zenon
<1> QED BY <1>2, <1>3, ReaderCases, Zenon

-----------------------------------------------------------------------------
(* The theorems.                                                            *)

StoreInv == TypeInv /\ LockInv /\ LogInv /\ CheckInv /\ RequestInv /\ OutcomesAreTrue

\* A new or a restored boundary satisfies the invariants of the log.
LEMMA InitStore ==
  ASSUME Init
  PROVE  StoreInv
<1>1. sequence \in Nat /\ \A w \in Restored : w.commit <= sequence
  BY InitialSequence, Zenon
<1>2. \A w \in Restored : WriteOK(w) /\ w.request \notin Requests
  BY RestoredAssumption DEF WriteOK
<1>3. Apart(Restored)
  BY RestoredAssumption, Zenon DEF Apart
<1>4. TypeInv
  BY <1>1 DEF Init, TypeInv, NullXid
<1>5. \A t \in Batches : stage[t] = "idle" /\ pending[t] = {}
  BY Zenon DEF Init
<1>6. LockInv
  BY <1>5, Zenon DEF LockInv, HoldsLock
<1>7. writes = Restored /\ \A r \in Requests : outcome[r] = "none"
  BY Zenon DEF Init
<1>8. LogInv
  BY <1>1, <1>2, <1>3, <1>5, <1>7, Zenon DEF LogInv
<1>9. CheckInv /\ RequestInv
  BY <1>2, <1>5, <1>7, Zenon DEF CheckInv, RequestInv
<1>10. OutcomesAreTrue
  BY <1>7, Zenon DEF OutcomesAreTrue
<1> QED BY <1>4, <1>6, <1>8, <1>9, <1>10, Zenon DEF StoreInv

\* Before a server has registered the boundary nothing has been read from it.
LEMMA InitReaders ==
  ASSUME Init
  PROVE  XidInv /\ ReaderInv /\ AscendingReadsMissNothing
<1>1. ~Registered /\ \A t \in Batches : stage[t] = "idle" /\ xid[t] = NullXid
  BY Zenon DEF Init, Registered
<1>2. XidInv
  BY <1>1, Zenon DEF XidInv, HoldsLock
<1>3. cursor = [c \in Readers |-> NotExists] /\ delivered = [c \in Readers |-> {}]
  BY Zenon DEF Init
<1>4. ReaderInv
  BY <1>3 DEF ReaderInv, NotExists, Position
<1>5. \A row \in Rows(writes) : row.pos \in Position /\ 0 <= row.pos[1]
  BY InitStore, RowsPositions, Zenon DEF StoreInv
<1>6. AscendingReadsMissNothing
  BY <1>3, <1>5 DEF AscendingReadsMissNothing, NotExists, Before, Position
<1> QED BY <1>2, <1>4, <1>6, Zenon

\* Every step of the store keeps the invariants of its log.
LEMMA StoreStep ==
  ASSUME LeastExists, StoreInv, [Next]_vars
  PROVE  StoreInv'
BY TypeStep, LockStep, LogStep, CheckStep, RequestStep, OutcomeStep, Zenon DEF StoreInv

INSTANCE WellFoundedInduction

\* From the well-foundedness of < on the natural numbers.
LEMMA LeastNatural == LeastExists
<1> SUFFICES ASSUME NEW T \in SUBSET Nat, T # {} PROVE \E x \in T : \A y \in T : x <= y
  BY Zenon DEF LeastExists
<1> DEFINE R == {ss \in Nat \X Nat : ss[1] < ss[2]}
<1>1. IsWellFoundedOn(R, Nat)
  BY NatLessThanWellFounded, Zenon DEF OpToRel
<1>2. PICK x \in T : \A y \in T : ~(<<y, x>> \in R)
  <2> HIDE DEF R
  <2> QED BY <1>1, WFMin, Zenon
<1>3. \A y \in T : ~(y < x)
  BY <1>2, Zenon
<1> QED BY <1>3

\* The outcomes executeBatch reports: an accepted request is in the log, once,
\* and a request reported as a conflict is not and never will be, for any
\* batches of any servers, with aborts and lost answers.
THEOREM OutcomesHold == Spec => []OutcomesAreTrue
<1>1. Init => StoreInv
  BY InitStore, Zenon
<1>2. StoreInv /\ [Next]_vars => StoreInv'
  BY StoreStep, LeastNatural, Zenon
<1>3. StoreInv => OutcomesAreTrue
  BY Zenon DEF StoreInv
<1> QED BY <1>1, <1>2, <1>3, PTL DEF Spec

\* insert_event_requests_v2 implements the event log: every write was saved at
\* the end, with its own positions, while everything it had observed stood,
\* although a batch decides its requests from criterion positions of its own.
THEOREM StoreIsEventLog == Spec => ImplementsEventLog
<1>1. Init => StoreInv
  BY InitStore, Zenon
<1>2. Init => Log!Init
  BY Zenon DEF Init, Log!Init
<1>3. StoreInv /\ [Next]_vars => StoreInv'
  BY StoreStep, LeastNatural, Zenon
<1>4. StoreInv /\ [Next]_vars => [Log!Save]_(Saved(writes))
  BY LogRefined, Zenon DEF StoreInv
<1> QED BY <1>1, <1>2, <1>3, <1>4, PTL DEF Spec, ImplementsEventLog, Log!Spec

\* get_matching_events_v4: as long as servers start cleanly no event at or
\* before the cursor of an ascending reader is one it has not delivered.
THEOREM ReadersMissNothing == Spec /\ []CleanStart => []AscendingReadsMissNothing
<1> DEFINE Inv == StoreInv /\ XidInv /\ ReaderInv /\ AscendingReadsMissNothing
<1>1. Init => Inv
  BY InitStore, InitReaders, Zenon
<1>2. Inv /\ CleanStart /\ [Next]_vars => Inv'
  <2> SUFFICES ASSUME Inv, CleanStart, [Next]_vars PROVE Inv'
    BY Zenon
  <2>1. StoreInv'
    BY StoreStep, LeastNatural, Zenon
  <2>2. XidInv'
    BY XidStep, Zenon DEF StoreInv
  <2>3. ReaderInv' /\ AscendingReadsMissNothing'
    BY ReaderStep, LeastNatural, Zenon DEF StoreInv
  <2> QED BY <2>1, <2>2, <2>3, Zenon
<1>3. Inv => AscendingReadsMissNothing
  BY Zenon
<1> HIDE DEF Inv
<1> QED BY <1>1, <1>2, <1>3, PTL DEF Spec
=============================================================================
