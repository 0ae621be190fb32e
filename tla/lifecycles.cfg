CONSTANTS
    Case = "all"
    Scenarios <- MCScenarios
    Of <- MCOf
    Words <- MCWords
    Marks <- MCMarks
    NotTagValues <- MCNotTagValues
    MaxAllowedSpans = 2
    MaxChanges = 5
    MaxStarts = 6
    Drawn <- MCDrawn
    MaxRuns = 2
    MaxMishaps = 1
    MaxCrashes = 1
SPECIFICATION SystemSpec
CHECK_DEADLOCK FALSE
INVARIANTS
    GeneratorTypeOK
    NoSpanOutlivesItsObject
    WorkIsTracked
    RefusedOnlyWithReason
    LostOnlyByRestart
    EndsOwnObject
    ParentIsMentioned
    ErrorMeansFailure
    GeneratorClosesWhatItOpens
PROPERTIES
    NamedParentIsUsed
