CONSTANTS
    Request = {r1, r2}
    Root = root
    Id = {root}
    NoId = noid
    NoSpan = nospan
    MaxAllowedSpans = 1
    SameIdOverlap = TRUE
    MaxResets = 1
    Backends = {"mock", "jaeger", "logging"}
    Events <- MCEvents
SPECIFICATION ServerSpec
CHECK_DEADLOCK FALSE
INVARIANTS
    DeadlineIsGranted
