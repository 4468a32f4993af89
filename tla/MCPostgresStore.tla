--------------------------- MODULE MCPostgresStore ---------------------------
(* Instances of PostgresStore for TLC. *)
EXTENDS PostgresStore, TLC

CONSTANTS a, b, r1, r2, r3, r4, t1, t2, t3

\* r1 has two events and an OR query, so that r2 depends on the first of them
\* and r3 on the second.
MCDocs == (r1 :> <<{a}, {b}>>) @@ (r2 :> <<{a}>>) @@ (r3 :> <<{b}>>) @@ (r4 :> <<{a, b}>>)
MCQueries == (r1 :> {{{a}, {b}}}) @@ (r2 :> {{{a}}}) @@ (r3 :> {{{b}}, {{a, b}}}) @@ (r4 :> {{{a}}})

\* Two requests in one batch, and two batches of other processes.
MCBatchOf == (t1 :> <<r1, r2>>) @@ (t2 :> <<r3>>) @@ (t3 :> <<r4>>)

\* The first batch alone.
TwoDocs == [r \in Requests |-> MCDocs[r]]
TwoQueries == [r \in Requests |-> MCQueries[r]]
OneBatch == [t \in Batches |-> MCBatchOf[t]]

\* A write restored from a cluster whose transaction ids were far ahead.
RestoredWrite ==
    [commit |-> 1, first |-> 0, docs |-> <<{a}>>, checks |-> {}, request |-> "restored", xid |-> 50]
OneRestored == {RestoredWrite}
=============================================================================
