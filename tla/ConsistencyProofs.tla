--------------------------- MODULE ConsistencyProofs ---------------------------
(***************************************************************************)
(* Facts about the positions, queries and rows of module Consistency that  *)
(* the proofs about the storage backends cite.                             *)
(***************************************************************************)
EXTENDS Consistency, Sequences, TLAPS

\* A set of natural numbers that is not empty has a least member.  The proof
\* modules establish this where they need it, from the well-foundedness of <.
LeastExists == \A T \in SUBSET Nat : T # {} => \E x \in T : \A y \in T : x <= y

\* A set of natural numbers that is bounded has a greatest member.
LEMMA GreatestNatural ==
  ASSUME LeastExists, NEW T \in SUBSET Nat, T # {}, NEW n \in Nat, \A x \in T : x <= n
  PROVE  \E x \in T : \A y \in T : y <= x
<1> DEFINE U == {n - x : x \in T}
<1>1. U \in SUBSET Nat /\ U # {}
  <2>1. \A x \in T : n - x \in Nat
    OBVIOUS
  <2>2. PICK x \in T : TRUE
    BY Zenon
  <2>3. n - x \in U
    BY Zenon
  <2> QED BY <2>1, <2>3, Zenon
<1>2. PICK u \in U : \A v \in U : u <= v
  <2> HIDE DEF U
  <2> QED BY <1>1, Zenon DEF LeastExists
<1>3. PICK x \in T : u = n - x
  BY Zenon
<1>4. ASSUME NEW y \in T PROVE y <= x
  <2>1. n - x <= n - y
    BY <1>2, <1>3, Zenon
  <2> QED BY <2>1
<1> QED BY <1>4, Zenon

-----------------------------------------------------------------------------
Position == Int \X Int

\* Positions are totally ordered.
LEMMA BeforeIsTotal ==
  ASSUME NEW p \in Position, NEW q \in Position
  PROVE  /\ ~Before(p, p)
         /\ p = q \/ Before(p, q) \/ Before(q, p)
         /\ ~(Before(p, q) /\ Before(q, p))
BY DEF Position, Before

\* Positions are compared by commit position first, then by event number.
LEMMA BeforePairs ==
  ASSUME NEW a \in Int, NEW b \in Int, NEW c \in Int, NEW d \in Int
  PROVE  /\ <<a, b>> \in Position
         /\ Before(<<a, b>>, <<c, d>>) <=> a < c \/ (a = c /\ b < d)
BY Zenon DEF Before, Position

\* The order of positions is transitive.
LEMMA BeforeIsTransitive ==
  ASSUME NEW p \in Position, NEW q \in Position, NEW r \in Position, Before(p, q), Before(q, r)
  PROVE  Before(p, r)
BY DEF Position, Before

\* A member that every other one is before is the one Greatest returns.
LEMMA GreatestIs ==
  ASSUME NEW S \in SUBSET Position, NEW p \in S, \A q \in S : q = p \/ Before(q, p)
  PROVE  Greatest(S) = p
<1>1. ASSUME NEW x \in S, \A q \in S : q = x \/ Before(q, x) PROVE x = p
  BY <1>1, BeforeIsTotal, Zenon
<1>2. PICK x : x = CHOOSE y \in S : \A q \in S : q = y \/ Before(q, y)
  BY Zenon
<1>3. x \in S /\ \A q \in S : q = x \/ Before(q, x)
  BY <1>2, Zenon
<1> QED BY <1>1, <1>2, <1>3, Zenon DEF Greatest

\* A set of bounded positions has a greatest one.
LEMMA GreatestExists ==
  ASSUME LeastExists, NEW n \in Nat, NEW S \in SUBSET ((-1 .. n) \X (-1 .. n)), S # {}
  PROVE  \E p \in S : \A q \in S : q = p \/ Before(q, p)
<1>0. \A p \in S : p = <<p[1], p[2]>> /\ p[1] \in -1 .. n /\ p[2] \in -1 .. n
  OBVIOUS
<1> DEFINE T == {p[1] + 1 : p \in S}
<1>1. \A p \in S : p[1] + 1 \in Nat /\ p[1] + 1 <= n + 1
  BY <1>0
<1>2. PICK a \in T : \A b \in T : b <= a
  <2>1. T \in SUBSET Nat /\ T # {} /\ n + 1 \in Nat /\ \A x \in T : x <= n + 1
    BY <1>1
  <2> HIDE DEF T
  <2> QED BY <2>1, GreatestNatural, Zenon
<1> DEFINE U == {p[2] + 1 : p \in {x \in S : x[1] + 1 = a}}
<1>3. \A p \in S : p[2] + 1 \in Nat /\ p[2] + 1 <= n + 1
  BY <1>0
<1>4. PICK c \in U : \A b \in U : b <= c
  <2>1. U \in SUBSET Nat /\ \A x \in U : x <= n + 1
    BY <1>3
  <2>2. U # {} /\ n + 1 \in Nat
    BY <1>2
  <2> HIDE DEF U
  <2> QED BY <2>1, <2>2, GreatestNatural, Zenon
<1>5. PICK p \in S : p[1] + 1 = a /\ p[2] + 1 = c
  BY <1>4, Zenon
<1>6. ASSUME NEW q \in S PROVE q = p \/ Before(q, p)
  <2>1. q[1] + 1 <= a /\ (q[1] + 1 = a => q[2] + 1 <= c)
    BY <1>2, <1>4, Zenon
  <2>2. q[1] < p[1] \/ (q[1] = p[1] /\ q[2] <= p[2])
    BY <1>0, <1>5, <2>1
  <2>3. q[2] <= p[2] => q[2] = p[2] \/ q[2] < p[2]
    BY <1>0
  <2> QED BY <1>0, <2>2, <2>3, Zenon DEF Before
<1> QED BY <1>6, Zenon

-----------------------------------------------------------------------------
(* Rows.                                                                    *)

\* The rows of two sets of writes are those of either.
LEMMA RowsUnion ==
  ASSUME NEW A, NEW B
  PROVE  Rows(A \cup B) = Rows(A) \cup Rows(B)
BY Zenon DEF Rows

\* A write none of whose documents matches leaves a criterion's latest position.
LEMMA LatestMatchKept ==
  ASSUME NEW c, NEW rows, NEW w, NEW all, all = rows \cup WriteRows(w),
         \A i \in DOMAIN w.docs : ~Matches(c, w.docs[i])
  PROVE  LatestMatch(c, all) = LatestMatch(c, rows)
<1>1. \A x \in WriteRows(w) : ~Matches(c, x.doc)
  BY DEF WriteRows
<1>2. {x \in all : Matches(c, x.doc)} = {x \in rows : Matches(c, x.doc)}
  BY <1>1, Zenon
<1> QED BY <1>2, Zenon DEF LatestMatch

\* The rows of a boundary once w, which follows all of them, is saved.
Extended(all, rows, w) ==
    /\ all = rows \cup WriteRows(w)
    /\ w.commit \in Int /\ w.first \in Int /\ DOMAIN w.docs \subseteq Int
    /\ \A x \in rows : x.pos \in Position /\ x.pos[1] < w.commit

\* The last of a write's documents that matches a criterion.
LastHit(c, w, m) ==
    /\ m \in DOMAIN w.docs /\ Matches(c, w.docs[m])
    /\ \A j \in DOMAIN w.docs : Matches(c, w.docs[j]) => j <= m

\* After a write at the end it is that of the write's last matching document.
LEMMA LatestMatchMoves ==
  ASSUME NEW c, NEW rows, NEW w, NEW all, Extended(all, rows, w), NEW m, LastHit(c, w, m)
  PROVE  LatestMatch(c, all) = <<w.commit, w.first + m - 1>>
<1> USE DEF Extended, LastHit
<1> DEFINE p == <<w.commit, w.first + m - 1>>
           found == {x \in all : Matches(c, x.doc)}
           S == {x.pos : x \in found}
<1>0. m \in Int /\ p \in Position
  BY DEF Position
<1>1. p \in S
  <2> DEFINE y == [pos |-> p, doc |-> w.docs[m]]
  <2>1. y \in WriteRows(w)
    BY Zenon DEF WriteRows
  <2>2. y.pos = p /\ y.doc = w.docs[m]
    BY Zenon
  <2> HIDE DEF y, p
  <2> QED BY <2>1, <2>2, Zenon
<1>2. ASSUME NEW x \in found
      PROVE  x.pos \in Position /\ (x.pos = p \/ Before(x.pos, p))
  <2>1. CASE x \in rows
    BY <1>0, <2>1, Zenon DEF Before, Position
  <2>2. CASE x \in WriteRows(w)
    <3>1. PICK i \in DOMAIN w.docs : x = [pos |-> <<w.commit, w.first + i - 1>>, doc |-> w.docs[i]]
      BY <2>2, Zenon DEF WriteRows
    <3>2. i <= m /\ i \in Int
      BY <3>1, Zenon
    <3>3. x.pos = <<w.commit, w.first + i - 1>>
      BY <3>1, Zenon
    <3>4. CASE i = m
      BY <1>0, <3>3, <3>4, Zenon
    <3>5. CASE i # m
      <4>1. w.first + i - 1 \in Int /\ w.first + m - 1 \in Int /\ w.first + i - 1 < w.first + m - 1
        BY <1>0, <3>2, <3>5
      <4> QED BY <3>3, <4>1, BeforePairs
    <3> QED BY <3>4, <3>5, Zenon
  <2> QED BY <2>1, <2>2, Zenon
<1>3. S \in SUBSET Position /\ \A q \in S : q = p \/ Before(q, p)
  <2> HIDE DEF found, p, Extended, LastHit
  <2> QED BY <1>2, Zenon
<1>4. Greatest(S) = p
  <2> HIDE DEF S, p, Extended, LastHit
  <2> QED BY <1>1, <1>3, GreatestIs, Zenon
<1> QED BY <1>4, Zenon DEF LatestMatch

\* The positions of rows in a part of the log.
Within(rows, n) == \A x \in rows : x.pos \in (0 .. n) \X (0 .. n)

\* The latest position of a criterion is that of a row it matches, and no row it
\* matches is after it.
LEMMA LatestMatchIs ==
  ASSUME LeastExists, NEW n \in Nat, NEW rows, Within(rows, n), NEW c
  PROVE  LET latest == LatestMatch(c, rows) IN
         /\ latest \in (-1 .. n) \X (-1 .. n)
         /\ latest = NotExists \/ \E x \in rows : Matches(c, x.doc) /\ x.pos = latest
         /\ \A x \in rows : Matches(c, x.doc) => x.pos = latest \/ Before(x.pos, latest)
<1> DEFINE S == {row.pos : row \in {x \in rows : Matches(c, x.doc)}}
<1>1. S \in SUBSET ((-1 .. n) \X (-1 .. n))
  <2>1. (0 .. n) \subseteq (-1 .. n)
    OBVIOUS
  <2> QED BY <2>1, Zenon DEF Within
<1>2. NotExists \in (-1 .. n) \X (-1 .. n)
  <2>1. -1 \in -1 .. n
    OBVIOUS
  <2> QED BY <2>1, Zenon DEF NotExists
<1>3. \A x \in rows : Matches(c, x.doc) => x.pos \in S
  BY Zenon
<1>4. \A p \in S : \E x \in rows : Matches(c, x.doc) /\ x.pos = p
  BY Zenon
<1>5. LatestMatch(c, rows) = Greatest(S)
  BY Zenon DEF LatestMatch
<1> HIDE DEF S
<1>6. CASE S = {}
  BY <1>2, <1>3, <1>5, <1>6, Zenon DEF Greatest
<1>7. CASE S # {}
  <2>1. \E p \in S : \A q \in S : q = p \/ Before(q, p)
    BY <1>1, <1>7, GreatestExists, Zenon
  <2>2. PICK p : p = CHOOSE x \in S : \A q \in S : q = x \/ Before(q, x)
    BY Zenon
  <2>3. p \in S /\ \A q \in S : q = p \/ Before(q, p)
    BY <2>1, <2>2, Zenon
  <2>4. Greatest(S) = p
    BY <1>7, <2>2, Zenon DEF Greatest
  <2> QED BY <1>1, <1>3, <1>4, <1>5, <2>3, <2>4, Zenon
<1> QED BY <1>6, <1>7, Zenon

\* A criterion that covers another has a later position, or the same.
LEMMA CoveringIsLater ==
  ASSUME LeastExists, NEW n \in Nat, NEW rows, Within(rows, n), NEW c, NEW d, d \subseteq c
  PROVE  LET this == LatestMatch(c, rows)
             other == LatestMatch(d, rows)
         IN  this = other \/ Before(this, other)
<1>1. PICK this, other : this = LatestMatch(c, rows) /\ other = LatestMatch(d, rows)
  BY Zenon
<1>2. /\ this = NotExists \/ \E x \in rows : Matches(c, x.doc) /\ x.pos = this
      /\ other = NotExists \/ \E x \in rows : x.pos = other
      /\ \A x \in rows : Matches(d, x.doc) => x.pos = other \/ Before(x.pos, other)
  BY <1>1, LatestMatchIs, Zenon
<1>3. CASE this # NotExists
  BY <1>1, <1>2, <1>3, Zenon DEF Matches
<1>4. CASE this = NotExists /\ other # NotExists
  <2>1. PICK x \in rows : x.pos = other
    BY <1>2, <1>4, Zenon
  <2>2. other \in (0 .. n) \X (0 .. n)
    BY <2>1, Zenon DEF Within
  <2>3. other[1] \in 0 .. n
    BY <2>2, Zenon
  <2>4. -1 < other[1]
    BY <2>3
  <2>5. this[1] = -1
    BY <1>4, Zenon DEF NotExists
  <2> QED BY <1>1, <2>4, <2>5, Zenon DEF Before
<1> QED BY <1>1, <1>3, <1>4, Zenon

\* Criteria that others of a query cover do not count for its latest position.
LEMMA CoveredQuery ==
  ASSUME LeastExists, NEW n \in Nat, NEW rows, Within(rows, n),
         NEW q, NEW m \in SUBSET q, \A c \in q : \E d \in m : d \subseteq c
  PROVE  LatestPosition(m, rows) = LatestPosition(q, rows)
<1> DEFINE L(c) == LatestMatch(c, rows)
           S == {L(c) : c \in q}
           T == {L(c) : c \in m}
<1>1. \A c : L(c) \in (-1 .. n) \X (-1 .. n)
  BY LatestMatchIs, Zenon
<1>2. \A c \in q : \E d \in m : L(c) = L(d) \/ Before(L(c), L(d))
  BY CoveringIsLater, Zenon
<1>3. LatestPosition(m, rows) = Greatest(T) /\ LatestPosition(q, rows) = Greatest(S)
  BY Zenon DEF LatestPosition
<1> HIDE DEF L
<1>4. T \subseteq S /\ S \in SUBSET ((-1 .. n) \X (-1 .. n))
  BY <1>1, Zenon
<1>5. \A p \in S : \E r \in T : p = r \/ Before(p, r)
  BY <1>2, Zenon
<1>6. S \in SUBSET Position
  <2>1. \A i \in -1 .. n : i \in Int
    OBVIOUS
  <2> QED BY <1>4, <2>1, Zenon DEF Position
<1> HIDE DEF S, T
<1>7. CASE S = {}
  BY <1>3, <1>4, <1>7, Zenon
<1>8. CASE S # {}
  <2>1. PICK p \in S : \A r \in S : r = p \/ Before(r, p)
    BY <1>4, <1>8, GreatestExists, Zenon
  <2>2. p \in T
    <3>1. PICK r \in T : p = r \/ Before(p, r)
      BY <1>5, <2>1, Zenon
    <3> QED BY <1>4, <1>6, <2>1, <3>1, BeforeIsTotal, Zenon
  <2>3. Greatest(S) = p
    BY <1>6, <2>1, GreatestIs, Zenon
  <2>4. Greatest(T) = p
    <3>1. T \in SUBSET Position
      BY <1>4, <1>6, Zenon
    <3> QED BY <1>4, <2>1, <2>2, <3>1, GreatestIs, Zenon
  <2> QED BY <1>3, <2>3, <2>4, Zenon
<1> QED BY <1>7, <1>8, Zenon

\* A request has a first document.
LEMMA FirstOf ==
  ASSUME NEW S, NEW s \in Seq(S), s # <<>>
  PROVE  Len(s) \in Nat \ {0} /\ DOMAIN s = 1 .. Len(s) /\ 1 \in DOMAIN s
<1>1. Len(s) \in Nat \ {0} /\ DOMAIN s = 1 .. Len(s)
  OBVIOUS
<1> QED BY <1>1

-----------------------------------------------------------------------------
(* What the event log keeps of the writes of a backend.                     *)

Slim(w) == [commit |-> w.commit, first |-> w.first, docs |-> w.docs, checks |-> w.checks]

History(ws) == {Slim(w) : w \in ws}

\* What the event log keeps of a write has the same rows.
LEMMA SlimWrite ==
  ASSUME NEW w
  PROVE  /\ Slim(w).commit = w.commit /\ Slim(w).first = w.first
         /\ Slim(w).docs = w.docs /\ Slim(w).checks = w.checks
         /\ WriteRows(Slim(w)) = WriteRows(w)
<1>1. /\ Slim(w).commit = w.commit /\ Slim(w).first = w.first
      /\ Slim(w).docs = w.docs /\ Slim(w).checks = w.checks
  BY Zenon DEF Slim
<1> QED BY <1>1, Zenon DEF WriteRows

\* So the history of the event log has the rows of the boundary.
LEMMA HistoryRows ==
  ASSUME NEW ws
  PROVE  Rows(History(ws)) = Rows(ws)
BY SlimWrite DEF Rows, History

\* New writes follow the old ones, in an order of their own, and each stood
\* after all that precede it.
Following(old, new) ==
    /\ \A w \in old \cup new : w.commit \in Int
    /\ \A w \in new : DOMAIN w.docs # {}
    /\ \A w \in new, x \in old : x.commit < w.commit
    /\ \A w, x \in new : w = x \/ w.commit # x.commit
    /\ \A w \in new : Satisfied(w.checks, Rows({x \in old \cup new : x.commit < w.commit}))

\* The write h of a history is saved after those of before, old ones among them.
SavedLast(h, old, before, all) ==
    /\ DOMAIN h.docs # {}
    /\ \A x \in all : x # h => x.commit # h.commit
    /\ old \subseteq before
    /\ \A o \in Rows(before), n \in WriteRows(h) : Before(o.pos, n.pos)
    /\ Satisfied(h.checks, Rows(before))

\* Then saving them is a step of the event log.
LEMMA SavedAtEnd ==
  ASSUME NEW old, NEW new, Following(old, new)
  PROVE  \A h \in History(old \cup new) \ History(old) :
            SavedLast(h, History(old), {x \in History(old \cup new) : x.commit < h.commit},
                      History(old \cup new))
<1>0. PICK all : all = History(old \cup new)
  BY Zenon
<1> SUFFICES ASSUME NEW h \in all \ History(old), NEW before, before = {x \in all : x.commit < h.commit}
             PROVE  SavedLast(h, History(old), before, all)
  BY <1>0, Zenon
<1>1. PICK w \in new : h = Slim(w)
  BY <1>0, Zenon DEF History
<1>2. /\ h.commit = w.commit /\ h.docs = w.docs /\ h.checks = w.checks
      /\ WriteRows(h) = WriteRows(w)
  BY <1>1, SlimWrite, Zenon
<1>3. w.commit \in Int /\ DOMAIN w.docs # {}
  BY Zenon DEF Following
<1> DEFINE earlier == {x \in old \cup new : x.commit < w.commit}
<1>4. before = History(earlier)
  <2>1. \A x : Slim(x).commit = x.commit
    BY SlimWrite, Zenon
  <2> QED BY <1>0, <1>2, <2>1, Zenon DEF History
<1>5. Rows(before) = Rows(earlier)
  BY <1>4, HistoryRows, Zenon
<1>6. ASSUME NEW x \in all, x # h PROVE x.commit # h.commit
  <2>1. PICK y \in old \cup new : x = Slim(y)
    BY <1>0, Zenon DEF History
  <2>2. y # w /\ x.commit = y.commit
    BY <1>1, <1>6, <2>1, SlimWrite, Zenon
  <2>3. y.commit # w.commit
    <3>1. y \in new => y.commit # w.commit
      BY <2>2, Zenon DEF Following
    <3>2. y \in old => y.commit < w.commit /\ y.commit \in Int
      BY Zenon DEF Following
    <3>3. y.commit \in Int /\ w.commit \in Int /\ y.commit < w.commit => y.commit # w.commit
      OBVIOUS
    <3> QED BY <1>3, <3>1, <3>2, <3>3, Zenon
  <2> QED BY <1>2, <2>2, <2>3, Zenon
<1>7. History(old) \subseteq before
  <2>1. \A x \in old : x \in earlier
    BY Zenon DEF Following
  <2> QED BY <1>4, <2>1, Zenon DEF History
<1>8. \A o \in Rows(before), n \in WriteRows(h) : Before(o.pos, n.pos)
  <2>1. ASSUME NEW o \in Rows(earlier) PROVE o.pos[1] < w.commit
    <3>1. PICK x \in earlier : o \in WriteRows(x)
      BY Zenon DEF Rows
    <3>2. PICK i \in DOMAIN x.docs : o = [pos |-> <<x.commit, x.first + i - 1>>, doc |-> x.docs[i]]
      BY <3>1, Zenon DEF WriteRows
    <3>3. o.pos[1] = x.commit
      BY <3>2
    <3> QED BY <3>1, <3>3, Zenon
  <2>2. ASSUME NEW n \in WriteRows(w) PROVE n.pos[1] = w.commit
    BY <2>2 DEF WriteRows
  <2> QED BY <1>2, <1>5, <2>1, <2>2, Zenon DEF Before
<1>9. Satisfied(h.checks, Rows(before))
  BY <1>2, <1>5, Zenon DEF Following
<1> QED BY <1>2, <1>3, <1>6, <1>7, <1>8, <1>9, Zenon DEF SavedLast
=============================================================================
