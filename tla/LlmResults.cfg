\* Three different requests of one process, any two in execute at a time.
SPECIFICATION FairSpec
CONSTANTS
    r1 = r1  r2 = r2  r3 = r3  r4 = r4  r5 = r5
    p1 = p1  p2 = p2  e1 = e1  e2 = e2  e3 = e3
    Request = {r1, r2, r3}
    Process = {p1}
    ProcessOf <- OneProcess
    Entry = {e1, e2, e3}
    Chain <- MixedChains
    Usable = {e1, e3}
    CostOf <- Unit
    Cap = 0
    Concurrency = 2
    LlmFaults = {"crash"}
    KindOf <- MixedKinds
    Overriding = {r1}  Refreshing = {}  ByChapter = {r3}
    NoRow = NoRow
    MaxChanges = 2
CHECK_DEADLOCK FALSE
INVARIANTS OverridesStayApart ChapterSentimentHasChapters
PROPERTIES RequestsEnd
