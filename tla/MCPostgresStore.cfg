\* Three processes, an unrelated transaction and a reader.
CONSTANTS
    a = a
    b = b
    r1 = r1
    r2 = r2
    r3 = r3
    r4 = r4
    t1 = t1
    t2 = t2
    t3 = t3
    Predicates = {a, b}
    Requests = {r1, r2, r3, r4}
    Docs <- MCDocs
    Queries <- MCQueries
    Batches = {t1, t2, t3}
    BatchOf <- MCBatchOf
    Servers = {s1}
    Others = {o1}
    Readers = {c1}
    Restored <- OneRestored
SPECIFICATION Spec
INVARIANTS
    AscendingReadsMissNothing
    OutcomesAreTrue
PROPERTY ImplementsEventLog
\* Every batch ends.
CHECK_DEADLOCK FALSE
