----------------------------- MODULE Consistency -----------------------------
(***************************************************************************)
(* Command context consistency: positions, criteria and observations.      *)
(*                                                                         *)
(* A tag predicate (key, operator, value) is a member of a set, a document *)
(* is the set of the predicates it satisfies, a criterion is the set of    *)
(* the predicates it ANDs and a query the set of the criteria it ORs.      *)
(* Normalisation (orisun/consistency.go) sorts tags and criteria and drops *)
(* duplicates, which is what a set does.                                   *)
(***************************************************************************)
EXTENDS Integers

NotExists == <<-1, -1>>

\* Positions are ordered by commit position, then by prepare position.
Before(p, q) == p[1] < q[1] \/ (p[1] = q[1] /\ p[2] < q[2])

\* The greatest of a set of positions, NotExists when it is empty.
Greatest(S) ==
    IF S = {} THEN NotExists ELSE CHOOSE p \in S : \A q \in S : q = p \/ Before(q, p)

Matches(criterion, doc) == criterion \subseteq doc

\* The latest position among the rows that match one criterion.
LatestMatch(criterion, rows) ==
    Greatest({row.pos : row \in {x \in rows : Matches(criterion, x.doc)}})

\* The latest position of an OR query is the greatest of its criteria's.
LatestPosition(criteria, rows) == Greatest({LatestMatch(c, rows) : c \in criteria})

\* Every observation still stands.
Satisfied(checks, rows) ==
    \A check \in checks : LatestPosition(check.criteria, rows) = check.position

\* A write is a saved request: its documents share a commit position and take
\* consecutive prepare positions.
WriteRows(w) == {[pos |-> <<w.commit, w.first + i - 1>>, doc |-> w.docs[i]] : i \in DOMAIN w.docs}

Rows(ws) == UNION {WriteRows(w) : w \in ws}
=============================================================================
