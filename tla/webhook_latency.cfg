CONSTANTS
    Request = {r1, r2}
    Root = root
    Child = child
    Id = {root, child}
    NoId = noid
    NoSpan = nospan
    MaxAllowedSpans = 2
    Flaws = {"none", "tag"}
    SameIdOverlap = TRUE
    Events <- MCEvents
SPECIFICATION Spec
CHECK_DEADLOCK FALSE
INVARIANTS
    LatencyIsSourceOfTruth
