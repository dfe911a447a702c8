\* A diff and four topics requests of one process, two at a time, against a cap of
\* one call.
SPECIFICATION Spec
CONSTANTS
    r1 = r1  r2 = r2  r3 = r3  r4 = r4  r5 = r5
    p1 = p1  p2 = p2  e1 = e1  e2 = e2  e3 = e3
    Request = {r1, r2, r3, r4, r5}
    Process = {p1}
    ProcessOf <- OneProcess
    Entry = {e1, e2, e3}
    Chain <- RoutedChains
    Usable = {e1, e3}
    CostOf <- Unit
    Cap = 1
    Concurrency = 2
    LlmFaults = {"db"}
    KindOf <- DiffAndTopics
    Overriding = {}  Refreshing = {}  ByChapter = {}
    NoRow = NoRow
    MaxChanges = 0
CHECK_DEADLOCK FALSE
SYMMETRY EqualTopics
INVARIANTS SpendBounded
