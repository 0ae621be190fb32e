CONSTANTS
    Request = {r1, r2, r3}
    Root = root
    Child = child
    Id = {root, child}
    NoId = noid
    NoSpan = nospan
    MaxAllowedSpans = 2
    Flaws = {"none", "malformed", "tag", "parentPanic", "timings", "tagsPanic"}
    SameIdOverlap = TRUE
    Events <- MCEvents
SPECIFICATION Spec
CHECK_DEADLOCK FALSE
INVARIANTS
    AnswerMatchesEffect
PROPERTIES
    EndMakesRoom
    FinishedEventuallyLeaves
