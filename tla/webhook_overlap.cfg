CONSTANTS
    Request = {r1, r2, r3, r4}
    Root = root
    Child = child
    Id = {root, child}
    NoId = noid
    NoSpan = nospan
    MaxAllowedSpans = 1
    Flaws = {"none", "malformed", "panic", "tag", "parent", "parentPanic", "timings", "tags", "tagsPanic"}
    SameIdOverlap = TRUE
    Events <- MCEvents
SYMMETRY RequestSymmetry
SPECIFICATION Spec
CHECK_DEADLOCK FALSE
INVARIANTS
    TypeOK
    StoreBounded
    StoreHoldsAcceptedSpans
    EndsOwnSpan
    FinishedLeavesStore
    OpenSpanAccountedFor
