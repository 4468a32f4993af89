\* A server that starts while another one serves the boundary.
CONSTANTS
    a = a
    b = b
    r1 = r1
    r2 = r2
    r3 = r3
    r4 = r4
    t1 = t1
    t2 = t2
    t3 = t3
    Predicates = {a, b}
    Requests = {r1, r2, r3}
    Docs <- TwoDocs
    Queries <- TwoQueries
    Batches = {t1, t2}
    BatchOf <- OneBatch
    Servers = {s1, s2}
    Others = {o1}
    Readers = {c1}
    Restored = {}
SPECIFICATION Spec
INVARIANT AscendingReadsMissNothing
CHECK_DEADLOCK FALSE
