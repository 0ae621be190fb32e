CONSTANTS
    Request = {r1, r2, r3, r4, r5}
    Root = root
    Child = child
    Id = {root, child}
    NoId = noid
    NoSpan = nospan
    MaxAllowedSpans = 2
    Flaws = {"none", "panic", "tag", "timings", "tagsPanic"}
    SameIdOverlap = FALSE
    Events <- MCEvents
SYMMETRY RequestSymmetry
SPECIFICATION Spec
CHECK_DEADLOCK FALSE
INVARIANTS
    FinishedOnce
    LostOnlyByReplacement
PROPERTIES
    NeverDropsOpenSpan
    LostForGood
    ImplementsTracking
